---- MODULE Spec2Model ----
(***************************************************************************)
(* The multi-turn conversation manager of mcp_prompt_tester                *)
(* (tools/test_multiturn_conversation.py) over its SQLite store, with the  *)
(* provider registry and the provider adapters it calls.                   *)
(*                                                                         *)
(* Scheduling.  Every handler is an `async def`, but no await in it ever   *)
(* yields to the event loop: both registered adapters call the vendor's    *)
(* synchronous client (providers/openai.py:60,153, anthropic.py:60,184),   *)
(* so a handler runs to completion on the thread that called it.  What can *)
(* overlap are handlers on different threads; each thread has its own      *)
(* connection (threading.local, lines 18-36), and SQLite's file locking    *)
(* arbitrates: uncommitted writes are private to their connection, and one *)
(* connection at a time holds the write lock from its first INSERT/UPDATE/ *)
(* DELETE to its commit, rollback or close.  A thread is blocked, holding  *)
(* what it holds, for as long as its adapter call lasts.                   *)
(***************************************************************************)
EXTENDS Integers, Sequences, FiniteSets, TLC

\* ---------------------------------------------------------------- bounds
NumThreads == 2      \* threads calling the entry point
MaxConvs   == 2      \* conversation ids uuid4 hands out in one run
MaxTurns   == 2      \* exchanges a conversation is driven to

ThreadNames == <<"t1", "t2", "t3">>
Threads  == {ThreadNames[i] : i \in 1..NumThreads}
NoThread == "none"

\* ---------------------------------------------------------------- values
Null == "None"                          \* Python's None / an absent key
EmptyDict == [k \in {} |-> Null]        \* {}

Get(d, k) == IF k \in DOMAIN d THEN d[k] ELSE Null       \* dict.get(k)
GetOr(d, k, default) == IF k \in DOMAIN d THEN d[k] ELSE default   \* dict.get(k, default)
Truthy(v) == v # Null /\ v # ""                          \* not (not v), on str | None
Without(d, keys) == [k \in (DOMAIN d) \ keys |-> d[k]]   \* {k: v for k, v in d.items() if k not in keys}
Merge(a, b) == [k \in (DOMAIN a) \cup (DOMAIN b) |-> IF k \in DOMAIN b THEN b[k] ELSE a[k]]

\* A generator that would hand out the same identifier again.
uuid4_Fixed(n) == "c1"

\* str(uuid.uuid4()): the n-th identifier the process draws; no two draws agree.
UUIDs == <<"c1", "c2", "c3", "c4">>
uuid4(n) == UUIDs[n + 1]
Ids == {UUIDs[i] : i \in 1..(MaxConvs + 1)}   \* ids a caller may name; the last is never allocated

\* ------------------------------------------------------ provider registry
PROVIDERS == {"openai", "anthropic"}

\* get_default_models(): rates in thousandths of a dollar per million tokens.
get_default_models(provider) ==
    IF provider = "openai"
    THEN {[type |-> "fast",   name |-> "gpt-4o-mini", input_cost |-> 150,  output_cost |-> 600],
          [type |-> "smart",  name |-> "o1-mini",     input_cost |-> 1100, output_cost |-> 4400],
          [type |-> "vision", name |-> "gpt-4o",      input_cost |-> 2500, output_cost |-> 10000]}
    ELSE {[type |-> "fast",     name |-> "claude-3-5-haiku-20241022",  input_cost |-> 800,   output_cost |-> 4000],
          [type |-> "balanced", name |-> "claude-3-5-sonnet-20240620", input_cost |-> 3000,  output_cost |-> 15000],
          [type |-> "smart",    name |-> "claude-3-opus-20240229",     input_cost |-> 15000, output_cost |-> 75000]}

\* A lookup that would fall back to a built-in key.
get_api_key_Fallback(provider, keys) == "key"

\* get_api_key(provider, raise_error=False): the key, or None.
get_api_key(provider, keys) == IF provider \in keys THEN "key" ELSE Null

\* A cost block that would charge the output tokens at the input rate.
Costs_InputRate(provider, model, tin, tout) ==
    LET hits == {m \in get_default_models(provider) : m.name = model} IN
    IF hits = {} THEN EmptyDict
    ELSE LET info == CHOOSE m \in hits : TRUE IN
         [costs |-> [input_cost  |-> tin * info.input_cost,
                     output_cost |-> tout * info.input_cost,
                     total_cost  |-> tin * info.input_cost + tout * info.input_cost,
                     currency    |-> "USD",
                     rates       |-> [input_rate |-> info.input_cost, output_rate |-> info.output_cost]]]

\* A cost block that would also find the catalog entry by its type key.
Costs_ByType(provider, model, tin, tout) ==
    LET hits == {m \in get_default_models(provider) : m.name = model \/ m.type = model} IN
    IF hits = {} THEN EmptyDict
    ELSE LET info == CHOOSE m \in hits : TRUE IN
         [costs |-> [input_cost  |-> tin * info.input_cost,
                     output_cost |-> tout * info.output_cost,
                     total_cost  |-> tin * info.input_cost + tout * info.output_cost,
                     currency    |-> "USD",
                     rates       |-> [input_rate |-> info.input_cost, output_rate |-> info.output_cost]]]

\* The cost block of an adapter result: tokens x rate, in billionths of a dollar
\* (tokens / 1_000_000 x rate dollars); absent when no catalog entry has this name.
Costs(provider, model, tin, tout) ==
    LET hits == {m \in get_default_models(provider) : m.name = model} IN
    IF hits = {} THEN EmptyDict
    ELSE LET info == CHOOSE m \in hits : TRUE IN
         [costs |-> [input_cost  |-> tin * info.input_cost,
                     output_cost |-> tout * info.output_cost,
                     total_cost  |-> tin * info.input_cost + tout * info.output_cost,
                     currency    |-> "USD",
                     rates       |-> [input_rate |-> info.input_cost, output_rate |-> info.output_cost]]]

\* What the vendor API answers to one request: the text, the token counts, the
\* model id it reports and the seconds it took.  A text of None is a reply with
\* no text content (OpenAI: message.content is None).
VendorReplies ==
    {[text |-> "r1", tin |-> 1, tout |-> 1, model_id |-> "vendor-id", secs |-> 1],
     [text |-> "r2", tin |-> 1000000, tout |-> 1000000, model_id |-> "vendor-id", secs |-> 2],
     [text |-> Null, tin |-> 1, tout |-> 0, model_id |-> "vendor-id", secs |-> 1]}

Usage(provider, v) ==
    IF provider = "openai"
    THEN [prompt_tokens |-> v.tin, completion_tokens |-> v.tout, total_tokens |-> v.tin + v.tout]
    ELSE [input_tokens |-> v.tin, output_tokens |-> v.tout, total_tokens |-> v.tin + v.tout]

\* OpenAIProvider.generate / AnthropicProvider.generate on a vendor reply v.
generate(provider, model, v) ==
    Merge([text |-> v.text, model |-> model, usage |-> Usage(provider, v), response_time |-> v.secs],
          Costs(provider, model, v.tin, v.tout))

\* generate_with_history: OpenAI echoes the vendor's model id, Anthropic the requested one.
generate_with_history(provider, model, v) ==
    Merge([text |-> v.text, model |-> IF provider = "openai" THEN v.model_id ELSE model,
           usage |-> Usage(provider, v), response_time |-> v.secs],
          Costs(provider, model, v.tin, v.tout))

VARIABLES
    apiKeys,    \* os.environ: the providers whose <PROVIDER>_API_KEY is set
    db,         \* conversations.db as committed: [conversations, conversation_history]
    nextId,     \* uuid4 draws so far
    writer,     \* the thread whose connection holds the write lock, or NoThread
    th,         \* per thread: the handler it runs, its position and locals, its
                \* connection's uncommitted writes, and the response it returns
    turns,      \* per conversation id: the start and continue calls that returned
                \* success, in the order they returned, each with its arguments and
                \* the adapter's result (a record of the run; no handler reads it)
    closed,     \* the ids a close call deleted (a record of the run, likewise)
    cmp         \* the comparison runner: its call, its slots, its response

vars == <<apiKeys, db, nextId, writer, th, turns, closed, cmp>>
\* ------------------------------------------------------------ the store
\* json.dumps / json.loads: the text of a value, and the value of a text.
json_dumps(v) == [json |-> v]
json_loads(s) == s.json

EmptyDb == [conversations |-> EmptyDict, conversation_history |-> [c \in Ids |-> <<>>]]

\* INSERT INTO conversations: id is the PRIMARY KEY.
CanInsertConversation(d, id) == id \notin DOMAIN d.conversations
InsertConversation(d, id, row) ==
    [d EXCEPT !.conversations = Merge(d.conversations, [c \in {id} |-> row])]

\* An insert that would put the new message in front of the others.
InsertMessage_InFront(d, cid, role, content) ==
    [d EXCEPT !.conversation_history[cid] = <<[role |-> role, content |-> content]>> \o @]

\* An insert that would write over the latest message.
InsertMessage_Overwrites(d, cid, role, content) ==
    [d EXCEPT !.conversation_history[cid] =
        IF @ = <<>> THEN <<[role |-> role, content |-> content]>>
        ELSE [@ EXCEPT ![Len(@)] = [role |-> role, content |-> content]]]

\* INSERT INTO conversation_history: content is NOT NULL, and with
\* PRAGMA foreign_keys = ON conversation_id must name a conversations row.
CanInsertMessage(d, cid, content) == cid \in DOMAIN d.conversations /\ content # Null
InsertMessage(d, cid, role, content) ==
    [d EXCEPT !.conversation_history[cid] = Append(@, [role |-> role, content |-> content])]

\* An UPDATE without its WHERE clause: every record gets the new metrics.
UpdateConversation_All(d, cid, usage, costs, response_time) ==
    [d EXCEPT !.conversations =
        [c \in DOMAIN d.conversations |->
            [d.conversations[c] EXCEPT !.usage = usage, !.costs = costs,
                                       !.response_time = response_time]]]

\* UPDATE conversations SET usage = ?, costs = ?, response_time = ? WHERE id = ?
UpdateConversation(d, cid, usage, costs, response_time) ==
    IF cid \notin DOMAIN d.conversations THEN d
    ELSE [d EXCEPT !.conversations[cid] =
              [@ EXCEPT !.usage = usage, !.costs = costs, !.response_time = response_time]]

\* A DELETE whose foreign key would not cascade.
DeleteConversation_NoCascade(d, cid) ==
    [d EXCEPT !.conversations = Without(@, {cid})]

\* DELETE FROM conversations WHERE id = ?, with ON DELETE CASCADE on the
\* history's foreign key (foreign keys are enabled on every connection).
DeleteConversation(d, cid) ==
    [conversations |-> Without(d.conversations, {cid}),
     conversation_history |-> [d.conversation_history EXCEPT ![cid] = <<>>]]

RECURSIVE Reverse(_)
Reverse(q) == IF q = <<>> THEN <<>> ELSE Append(Reverse(Tail(q)), Head(q))

\* A SELECT that would return the newest message first.
SelectHistory_Newest(d, cid) == Reverse(d.conversation_history[cid])

\* SELECT role, content FROM conversation_history WHERE conversation_id = ? ORDER BY id
SelectHistory(d, cid) == d.conversation_history[cid]

\* ---------------------------------------------------------- connections
NoTxn == [open |-> FALSE]

\* A connection that would read through to any open transaction of another.
View_Uncommitted(t) ==
    IF \E u \in Threads : th[u].txn.open
    THEN th[CHOOSE u \in Threads : th[u].txn.open].txn.view
    ELSE db

\* What a statement on thread t's connection reads: its own uncommitted
\* writes when it has a transaction open, the committed file otherwise.
View(t) == IF th[t].txn.open THEN th[t].txn.view ELSE db

\* A store without write lock: every connection writes at any time.
CanWrite_Always(t) == TRUE

\* The first INSERT/UPDATE/DELETE of a transaction takes the write lock; it fails
\* with "database is locked" when another connection holds it past the timeout.
CanWrite(t) == writer \in {NoThread, t}

\* conn.commit(): the connection's writes become the file's.
Commit(view) == view
\* A rollback that would keep the connection's writes.
Rollback_Keeps(view) == view
\* conn.rollback(), and closing a connection with a transaction open: the file stays.
Rollback(view) == db

Idle == [pc |-> "idle", arguments |-> EmptyDict, conversation_id |-> Null, row |-> EmptyDict,
         conversation_history |-> <<>>, rows |-> EmptyDict, call |-> EmptyDict,
         txn |-> NoTxn, resp |-> EmptyDict, log |-> <<>>]

Error(kind) == [isError |-> TRUE, error |-> kind]

\* A handler returns: the entry point's finally clause closes the thread's
\* connection (lines 132-134, 32-36) and the response is on its way to the caller.
Return(me, args, cid, resp, log) ==
    [me EXCEPT !.pc = "done", !.arguments = args, !.conversation_id = cid,
               !.txn = NoTxn, !.resp = resp, !.log = log]

\* No response is on its way: the caller has each response before the next step
\* of any handler (no handler reads another's response, so this orders nothing
\* that the program could tell apart).
Quiet == \A u \in Threads : th[u].pc # "done"
\* -------------------------------------------------------------- inputs
StartA == [mode |-> "start", provider |-> "openai", model |-> "gpt-4o-mini",
           system_prompt |-> "S1", user_prompt |-> "u1"]
StartB == [mode |-> "start", provider |-> "anthropic", model |-> "fast",
           system_prompt |-> "P101", user_prompt |-> "u2", temperature |-> "0.2", seed |-> "42"]

\* The argument maps the transport delivers.
Arguments ==
    {StartA, StartB,
     Without(StartA, {"provider"}), [StartA EXCEPT !.provider = ""],
     [StartA EXCEPT !.provider = "bogus"],
     Without(StartA, {"model"}), [StartA EXCEPT !.model = Null],
     Without(StartB, {"system_prompt"}), [StartB EXCEPT !.system_prompt = ""],
     [StartA EXCEPT !.system_prompt = "P100"]}
    \cup {[mode |-> "continue", conversation_id |-> c, user_prompt |-> "u3"] : c \in Ids}
    \cup {[mode |-> "continue", conversation_id |-> c, user_prompt |-> "u3",
            system_prompt |-> "S9"] : c \in Ids}
    \cup {[mode |-> m, conversation_id |-> c] : m \in {"get", "close"}, c \in Ids}
    \cup {[mode |-> m] : m \in {"continue", "get", "close", "list", "purge"}}
    \cup {EmptyDict}

\* What the vendor does with one request: a reply, or an error of any class.
VendorError == [failed |-> TRUE]
VendorOutcomes == VendorReplies \cup {VendorError}

\* The adapter on a vendor outcome: every exception leaves it as a ProviderError,
\* and so does an Anthropic reply without text content.
Adapter(method, provider, model, o) ==
    IF o = VendorError \/ (provider = "anthropic" /\ o.text = Null)
    THEN [raised |-> TRUE]
    ELSE [raised |-> FALSE,
          result |-> IF method = "generate" THEN generate(provider, model, o)
                     ELSE generate_with_history(provider, model, o)]

\* ------------------------------------------------------------- start
ReservedKeys == {"mode", "provider", "model", "system_prompt", "user_prompt",
                 "temperature", "max_tokens", "top_p", "conversation_id"}
Kwargs(args) == Without(args, ReservedKeys)
\* Hyperparameters that would keep the three named ones alone.
Hyperparameters_Named(args) ==
    [temperature |-> Get(args, "temperature"), max_tokens |-> Get(args, "max_tokens"),
     top_p |-> Get(args, "top_p")]
\* hyperparameters = {"temperature": ..., "max_tokens": ..., "top_p": ..., **kwargs}
Hyperparameters(args) ==
    Merge([temperature |-> Get(args, "temperature"), max_tokens |-> Get(args, "max_tokens"),
           top_p |-> Get(args, "top_p")], Kwargs(args))
UserPrompt(args) == GetOr(args, "user_prompt", "")

\* _start_conversation up to its adapter call: the checks, the id, the connection.
start_conversation(t, args, log) ==
    LET provider_name == Get(args, "provider")
        model         == Get(args, "model")
        system_prompt == Get(args, "system_prompt")
        done(resp, l) == /\ th' = [th EXCEPT ![t] = Return(Idle, args, Null, resp, l)]
                         /\ UNCHANGED <<apiKeys, db, nextId, writer, turns, closed, cmp>>
    IN
    IF Null \in {provider_name, model, system_prompt}
    THEN done(Error("missing_parameters"), log)
    ELSE IF provider_name \notin PROVIDERS
    THEN done(Error("not_supported"), Append(log, "registry"))
    ELSE IF ~Truthy(get_api_key(provider_name, apiKeys))
    THEN done(Error("no_api_key"), log \o <<"registry", "credential">>)
    ELSE /\ nextId < MaxConvs
         /\ nextId' = nextId + 1
         /\ th' = [th EXCEPT ![t] =
                [Idle EXCEPT !.pc = "adapter", !.arguments = args,
                             !.conversation_id = uuid4(nextId),
                             !.call = [method |-> "generate", provider |-> provider_name,
                                       model |-> model, system_prompt |-> system_prompt,
                                       user_prompt |-> UserPrompt(args),
                                       params |-> Hyperparameters(args)],
                             !.log = log \o <<"registry", "credential", "construct", "adapter">>]]
         /\ UNCHANGED <<apiKeys, db, writer, turns, closed, cmp>>

\* _start_conversation from the adapter's answer on: the three inserts and the
\* commit, or the rollback.
StartReturn(t) ==
    /\ Quiet
    /\ th[t].pc = "adapter"
    /\ th[t].arguments.mode = "start"
    /\ \E o \in VendorOutcomes :
        LET me     == th[t]
            args   == me.arguments
            cid    == me.conversation_id
            r      == Adapter("generate", args.provider, args.model, o)
            result == r.result
            row    == [provider |-> args.provider, model |-> args.model,
                       system_prompt |-> args.system_prompt,
                       hyperparameters |-> json_dumps(Hyperparameters(args)),
                       usage |-> json_dumps(GetOr(result, "usage", EmptyDict)),
                       costs |-> json_dumps(GetOr(result, "costs", EmptyDict)),
                       response_time |-> GetOr(result, "response_time", 0)]
            v1     == InsertConversation(View(t), cid, row)
            v2     == InsertMessage(v1, cid, "user", UserPrompt(args))
            v3     == InsertMessage(v2, cid, "assistant", result.text)
            fail(kind, view, l) ==
                /\ db' = Rollback(view)
                /\ th' = [th EXCEPT ![t] = Return(me, args, cid, Error(kind), me.log \o l)]
                /\ UNCHANGED <<turns, closed, cmp>>
        IN
        /\ IF r.raised
           THEN fail("provider_error", View(t), <<"rollback">>)
           ELSE IF ~CanWrite(t) \/ ~CanInsertConversation(View(t), cid)
           THEN fail("unexpected_generation", View(t), <<"rollback">>)
           ELSE IF ~CanInsertMessage(v2, cid, result.text)
           THEN fail("unexpected_generation", v2, <<"insert", "insert", "rollback">>)
           ELSE /\ db' = Commit(v3)
                /\ turns' = [turns EXCEPT ![cid] = <<[arguments |-> args, result |-> result]>>]
                /\ closed' = closed
                /\ cmp' = cmp
                /\ th' = [th EXCEPT ![t] = Return(me, args, cid,
                              [isError |-> FALSE, conversation_id |-> cid,
                               response |-> result.text, model |-> result.model,
                               usage |-> GetOr(result, "usage", EmptyDict),
                               costs |-> GetOr(result, "costs", EmptyDict),
                               response_time |-> GetOr(result, "response_time", 0)],
                              me.log \o <<"insert", "insert", "insert", "commit">>)]
        /\ writer' = IF writer = t THEN NoThread ELSE writer
        /\ UNCHANGED <<apiKeys, nextId>>
\* ----------------------------------------------------------- continue
\* Continue calls between their SELECTs and their return, on conversation cid.
Continuing(cid) ==
    {u \in Threads : th[u].pc \in {"insert", "adapter"} /\ th[u].arguments.mode = "continue"
                     /\ th[u].conversation_id = cid}

\* A continuation that would go on without the existence check.
continue_conversation_Unchecked(t, args, log) ==
    /\ th' = [th EXCEPT ![t] =
           [Idle EXCEPT !.pc = "insert", !.arguments = args,
                        !.conversation_id = Get(args, "conversation_id"),
                        !.log = log \o <<"select", "select">>]]
    /\ UNCHANGED <<apiKeys, db, nextId, writer, turns, closed, cmp>>

\* _continue_conversation up to its INSERT: the row and the history are read.
\* Callers drive a conversation to at most cap exchanges.
ContinueUpTo(t, args, log, cap) ==
    LET cid == Get(args, "conversation_id") IN
    IF cid \notin DOMAIN View(t).conversations
    THEN /\ th' = [th EXCEPT ![t] = Return(Idle, args, cid, Error("not_found"), Append(log, "select"))]
         /\ UNCHANGED <<apiKeys, db, nextId, writer, turns, closed, cmp>>
    ELSE /\ Len(SelectHistory(View(t), cid)) + 2 * Cardinality(Continuing(cid)) < 2 * cap
         /\ th' = [th EXCEPT ![t] =
                [Idle EXCEPT !.pc = "insert", !.arguments = args, !.conversation_id = cid,
                             !.row = View(t).conversations[cid],
                             !.conversation_history = SelectHistory(View(t), cid),
                             !.log = log \o <<"select", "select">>]]
         /\ UNCHANGED <<apiKeys, db, nextId, writer, turns, closed, cmp>>

continue_conversation(t, args, log) == ContinueUpTo(t, args, log, MaxTurns)

\* A continuation that would replay everything start stored.
valid_hyperparameters_All(hyperparameters) == hyperparameters

\* The hyperparameters a continuation replays.
valid_hyperparameters(hyperparameters) ==
    [k \in {p \in {"temperature", "max_tokens", "top_p"} :
              p \in DOMAIN hyperparameters /\ hyperparameters[p] # Null} |-> hyperparameters[k]]

\* A continuation that would commit the user message before it calls the adapter.
ContinueInsert_CommitsFirst(t) ==
    /\ Quiet
    /\ th[t].pc = "insert"
    /\ LET me   == th[t]
           view == InsertMessage(View(t), me.conversation_id, "user", UserPrompt(me.arguments))
       IN
       IF ~CanWrite(t) \/ ~CanInsertMessage(View(t), me.conversation_id, UserPrompt(me.arguments))
       THEN /\ th' = [th EXCEPT ![t] = Return(me, me.arguments, me.conversation_id,
                                              Error("unexpected"), me.log)]
            /\ UNCHANGED <<apiKeys, db, nextId, writer, turns, closed, cmp>>
       ELSE /\ db' = Commit(view)
            /\ th' = [th EXCEPT ![t] =
                   [me EXCEPT !.pc = "adapter",
                              !.log = me.log \o <<"insert", "commit", "construct", "adapter">>]]
            /\ UNCHANGED <<apiKeys, nextId, writer, turns, closed, cmp>>

\* The INSERT of the user message, then the provider's construction and the
\* call of generate_with_history.  The INSERT stands before the try block: what
\* it raises reaches the entry point's handler.
ContinueInsert(t) ==
    /\ Quiet
    /\ th[t].pc = "insert"
    /\ LET me   == th[t]
           args == me.arguments
           cid  == me.conversation_id
           user_prompt == UserPrompt(args)
           view == InsertMessage(View(t), cid, "user", user_prompt)
           history == Append(me.conversation_history, [role |-> "user", content |-> user_prompt])
       IN
       IF ~CanWrite(t) \/ ~CanInsertMessage(View(t), cid, user_prompt)
       THEN /\ th' = [th EXCEPT ![t] = Return(me, args, cid, Error("unexpected"), me.log)]
            /\ UNCHANGED <<apiKeys, db, nextId, writer, turns, closed, cmp>>
       ELSE IF get_api_key(me.row.provider, apiKeys) = Null
       THEN /\ db' = Rollback(view)
            /\ th' = [th EXCEPT ![t] = Return(me, args, cid, Error("provider_error"),
                                              me.log \o <<"insert", "construct", "rollback">>)]
            /\ UNCHANGED <<apiKeys, nextId, writer, turns, closed, cmp>>
       ELSE /\ writer' = t
            /\ th' = [th EXCEPT ![t] =
                   [me EXCEPT !.pc = "adapter", !.conversation_history = history,
                              !.txn = [open |-> TRUE, view |-> view],
                              !.call = [method |-> "generate_with_history",
                                        provider |-> me.row.provider, model |-> me.row.model,
                                        system_prompt |-> me.row.system_prompt,
                                        message_history |-> history,
                                        params |-> valid_hyperparameters(json_loads(me.row.hyperparameters))],
                              !.log = me.log \o <<"insert", "construct", "adapter">>]]
            /\ UNCHANGED <<apiKeys, db, nextId, turns, closed, cmp>>

\* An UPDATE that would store the model the vendor echoed as well.
ContinueUpdate_StoresModel(view, cid, result) ==
    LET v == UpdateConversation(view, cid, json_dumps(GetOr(result, "usage", EmptyDict)),
                                json_dumps(GetOr(result, "costs", EmptyDict)),
                                GetOr(result, "response_time", 0))
    IN IF cid \notin DOMAIN v.conversations THEN v
       ELSE [v EXCEPT !.conversations[cid].model = result.model]

\* An UPDATE that would add this turn's token counts and time to the stored ones.
ContinueUpdate_Cumulative(view, cid, result) ==
    IF cid \notin DOMAIN view.conversations THEN view
    ELSE LET old == json_loads(view.conversations[cid].usage)
             new == GetOr(result, "usage", EmptyDict)
         IN UpdateConversation(view, cid,
                json_dumps([k \in DOMAIN new |-> GetOr(old, k, 0) + new[k]]),
                json_dumps(GetOr(result, "costs", EmptyDict)),
                view.conversations[cid].response_time + GetOr(result, "response_time", 0))

\* The UPDATE of a continuation: usage, costs and response time of this turn.
ContinueUpdate(view, cid, result) ==
    UpdateConversation(view, cid, json_dumps(GetOr(result, "usage", EmptyDict)),
                       json_dumps(GetOr(result, "costs", EmptyDict)),
                       GetOr(result, "response_time", 0))

\* _continue_conversation from the adapter's answer on: the assistant's INSERT,
\* the UPDATE and the commit, or the rollback.
ContinueReturn(t) ==
    /\ Quiet
    /\ th[t].pc = "adapter"
    /\ th[t].arguments.mode = "continue"
    /\ \E o \in VendorOutcomes :
        LET me     == th[t]
            args   == me.arguments
            cid    == me.conversation_id
            r      == Adapter("generate_with_history", me.row.provider, me.row.model, o)
            result == r.result
            v1     == InsertMessage(View(t), cid, "assistant", result.text)
            v2     == ContinueUpdate(v1, cid, result)
        IN
        IF r.raised
        THEN /\ db' = Rollback(View(t))
             /\ th' = [th EXCEPT ![t] = Return(me, args, cid, Error("provider_error"),
                                               Append(me.log, "rollback"))]
             /\ UNCHANGED <<turns, closed, cmp>>
        ELSE IF ~CanInsertMessage(View(t), cid, result.text)
        THEN /\ db' = Rollback(View(t))
             /\ th' = [th EXCEPT ![t] = Return(me, args, cid, Error("unexpected_continuation"),
                                               Append(me.log, "rollback"))]
             /\ UNCHANGED <<turns, closed, cmp>>
        ELSE /\ db' = Commit(v2)
             /\ turns' = [turns EXCEPT ![cid] = Append(@, [arguments |-> args, result |-> result])]
             /\ closed' = closed
             /\ cmp' = cmp
             /\ th' = [th EXCEPT ![t] = Return(me, args, cid,
                           [isError |-> FALSE, conversation_id |-> cid,
                            response |-> result.text, model |-> result.model,
                            usage |-> GetOr(result, "usage", EmptyDict),
                            costs |-> GetOr(result, "costs", EmptyDict),
                            response_time |-> GetOr(result, "response_time", 0)],
                           me.log \o <<"insert", "update", "commit">>)]
    /\ writer' = NoThread
    /\ UNCHANGED <<apiKeys, nextId>>
\* ---------------------------------------------------------------- get
\* _get_conversation up to its second SELECT: the row is read.
get_conversation(t, args, log) ==
    LET cid == Get(args, "conversation_id") IN
    /\ th' = [th EXCEPT ![t] =
           IF cid \notin DOMAIN View(t).conversations
           THEN Return(Idle, args, cid, Error("not_found"), Append(log, "select"))
           ELSE [Idle EXCEPT !.pc = "history", !.arguments = args, !.conversation_id = cid,
                             !.row = View(t).conversations[cid], !.log = Append(log, "select")]]
    /\ UNCHANGED <<apiKeys, db, nextId, writer, turns, closed, cmp>>

\* A get that would reset the stored response time as it reads.
GetHistory_Touches(t) ==
    /\ Quiet
    /\ th[t].pc = "history"
    /\ th' = [th EXCEPT ![t] = Return(th[t], th[t].arguments, th[t].conversation_id,
                                      [isError |-> FALSE, conversation_id |-> th[t].conversation_id],
                                      Append(th[t].log, "select"))]
    /\ db' = UpdateConversation(db, th[t].conversation_id, th[t].row.usage, th[t].row.costs, 0)
    /\ UNCHANGED <<apiKeys, nextId, writer, turns, closed, cmp>>

\* The history is read and the response built.
GetHistory(t) ==
    /\ Quiet
    /\ th[t].pc = "history"
    /\ LET me == th[t] IN
       th' = [th EXCEPT ![t] = Return(me, me.arguments, me.conversation_id,
                  [isError |-> FALSE, conversation_id |-> me.conversation_id,
                   history |-> SelectHistory(View(t), me.conversation_id),
                   usage |-> json_loads(me.row.usage), costs |-> json_loads(me.row.costs),
                   response_time |-> me.row.response_time,
                   provider |-> me.row.provider, model |-> me.row.model,
                   system_prompt |-> me.row.system_prompt,
                   hyperparameters |-> json_loads(me.row.hyperparameters)],
                  Append(me.log, "select"))]
    /\ UNCHANGED <<apiKeys, db, nextId, writer, turns, closed, cmp>>

\* --------------------------------------------------------------- list
\* len(s) of the strings in use.  "P100" and "P101" stand for system prompts
\* of 100 and of 101 characters, "P101[:100]" for the first 100 characters of
\* the latter and "P101[:100]..." for these followed by three dots.
StrLen(s) ==
    CASE s = "" -> 0
      [] s = "..." -> 3
      [] s = "P100" -> 100
      [] s = "P101" -> 101
      [] s = "P101[:100]" -> 100
      [] s = "P101[:100]..." -> 103
      [] OTHER -> 2
\* s[:100]
Slice100(s) == IF s = "P101" THEN "P101[:100]" ELSE s
\* s + "..."
Dots(s) == IF s = "P101[:100]" THEN "P101[:100]..." ELSE "..."
\* system_prompt[:100] + "..." if len(system_prompt) > 100 else system_prompt
SummaryPrompt(system_prompt) ==
    IF StrLen(system_prompt) > 100 THEN Dots(Slice100(system_prompt)) ELSE system_prompt

\* _list_conversations up to its loop: the rows are read.
list_conversations(t, args, log) ==
    /\ th' = [th EXCEPT ![t] =
           [Idle EXCEPT !.pc = "summaries", !.arguments = args,
                        !.rows = [c \in DOMAIN View(t).conversations |->
                                     [provider |-> View(t).conversations[c].provider,
                                      model |-> View(t).conversations[c].model,
                                      system_prompt |-> View(t).conversations[c].system_prompt]],
                        !.log = Append(log, "select")]]
    /\ UNCHANGED <<apiKeys, db, nextId, writer, turns, closed, cmp>>

\* A selection that would take the newest message of a role first.
Contents_Newest(history, role) == Reverse(SelectSeq(history, LAMBDA m : m.role = role))

\* SELECT content ... WHERE conversation_id = ? AND role = ? ORDER BY id
Contents(history, role) == SelectSeq(history, LAMBDA m : m.role = role)

\* The loop over the rows: first user message, last assistant message, count.
ListSummaries(t) ==
    /\ Quiet
    /\ th[t].pc = "summaries"
    /\ LET me == th[t]
           summary(c) ==
               LET h  == SelectHistory(View(t), c)
                   us == Contents(h, "user")
                   as == Contents(h, "assistant")
               IN [provider |-> me.rows[c].provider, model |-> me.rows[c].model,
                   first_user_message |-> IF us = <<>> THEN "" ELSE us[1].content,
                   latest_assistant_message |-> IF as = <<>> THEN "" ELSE as[Len(as)].content,
                   message_count |-> Len(h),
                   system_prompt |-> SummaryPrompt(me.rows[c].system_prompt)]
       IN th' = [th EXCEPT ![t] = Return(me, me.arguments, Null,
                     [isError |-> FALSE, conversation_count |-> Cardinality(DOMAIN me.rows),
                      conversations |-> [c \in DOMAIN me.rows |-> summary(c)]],
                     Append(me.log, "select"))]
    /\ UNCHANGED <<apiKeys, db, nextId, writer, turns, closed, cmp>>

\* -------------------------------------------------------------- close
\* A close that would go on to its DELETE without the existence check.
close_conversation_Unchecked(t, args, log) ==
    /\ th' = [th EXCEPT ![t] =
           [Idle EXCEPT !.pc = "delete", !.arguments = args,
                        !.conversation_id = Get(args, "conversation_id"), !.log = log]]
    /\ UNCHANGED <<apiKeys, db, nextId, writer, turns, closed, cmp>>

\* _close_conversation up to its DELETE: the existence check.
close_conversation(t, args, log) ==
    LET cid == Get(args, "conversation_id") IN
    /\ th' = [th EXCEPT ![t] =
           IF cid \notin DOMAIN View(t).conversations
           THEN Return(Idle, args, cid, Error("not_found"), Append(log, "select"))
           ELSE [Idle EXCEPT !.pc = "delete", !.arguments = args, !.conversation_id = cid,
                             !.log = Append(log, "select")]]
    /\ UNCHANGED <<apiKeys, db, nextId, writer, turns, closed, cmp>>

\* The DELETE and the commit; nothing here catches what the DELETE raises.
CloseDelete(t) ==
    /\ Quiet
    /\ th[t].pc = "delete"
    /\ LET me == th[t] IN
       IF ~CanWrite(t)
       THEN /\ th' = [th EXCEPT ![t] = Return(me, me.arguments, me.conversation_id,
                                              Error("unexpected"), me.log)]
            /\ UNCHANGED <<db, turns, closed, cmp>>
       ELSE /\ db' = Commit(DeleteConversation(View(t), me.conversation_id))
            /\ turns' = [turns EXCEPT ![me.conversation_id] = <<>>]
            /\ closed' = closed \cup {me.conversation_id}
            /\ cmp' = cmp
            /\ th' = [th EXCEPT ![t] = Return(me, me.arguments, me.conversation_id,
                                              [isError |-> FALSE, message |-> "closed"],
                                              me.log \o <<"delete", "commit">>)]
    /\ UNCHANGED <<apiKeys, nextId, writer>>

\* ------------------------------------------------------- the entry point
\* test_multiturn_conversation: the mode, the mode's required fields, the handler.
EntryPoint(t, args, cap) ==
    LET mode == Get(args, "mode")
        missing(kind) == /\ th' = [th EXCEPT ![t] = Return(Idle, args, Null, Error(kind), <<"required">>)]
                         /\ UNCHANGED <<apiKeys, db, nextId, writer, turns, closed, cmp>>
        required == <<"required">>
    IN
    IF ~Truthy(mode) THEN missing("missing_mode")
    ELSE IF mode = "start"
    THEN IF ~Truthy(Get(args, "provider")) THEN missing("missing_provider")
         ELSE IF ~Truthy(Get(args, "model")) THEN missing("missing_model")
         ELSE IF ~Truthy(Get(args, "system_prompt")) THEN missing("missing_system_prompt")
         ELSE start_conversation(t, args, required)
    ELSE IF mode \in {"continue", "get", "close"}
    THEN IF ~Truthy(Get(args, "conversation_id")) THEN missing("missing_conversation_id")
         ELSE IF mode = "continue"
         THEN IF cap = MaxTurns THEN continue_conversation(t, args, required)
              ELSE ContinueUpTo(t, args, required, cap)
         ELSE IF mode = "get" THEN get_conversation(t, args, required)
         ELSE close_conversation(t, args, required)
    ELSE IF mode = "list" THEN list_conversations(t, args, required)
    ELSE missing("invalid_mode")

test_multiturn_conversation(t, args) == EntryPoint(t, args, MaxTurns)

\* A caller on thread t invokes the tool.
Call(t) ==
    /\ Quiet
    /\ th[t].pc = "idle"
    /\ \E args \in Arguments : test_multiturn_conversation(t, args)

\* The caller has the response.
Deliver(t) ==
    /\ th[t].pc = "done"
    /\ th' = [th EXCEPT ![t] = Idle]
    /\ UNCHANGED <<apiKeys, db, nextId, writer, turns, closed, cmp>>

\* The environments the process is started in: every key set, or OpenAI's alone.
Environments == {PROVIDERS, {"openai"}}

\* A store that would live in the process's memory: a restart empties it.
Restart_Volatile ==
    /\ Quiet
    /\ apiKeys' \in Environments
    /\ th' = [t \in Threads |-> Idle]
    /\ writer' = NoThread
    /\ db' = EmptyDb
    /\ UNCHANGED <<nextId, turns, closed, cmp>>

\* The process stops, at any point, and is started again: connections are gone
\* with what they had not committed, the file stays, the environment is read anew.
Restart ==
    /\ Quiet
    /\ apiKeys' \in Environments
    /\ th' = [t \in Threads |-> Idle]
    /\ writer' = NoThread
    /\ UNCHANGED <<db, nextId, turns, closed, cmp>>

\* ------------------------------------------------- the comparison runner
\* test_comparison: at most this many configurations (line 26).
MaxComparisons == 4

CmpIdle == [pc |-> "idle", arguments |-> EmptyDict, slots |-> <<>>, resp |-> EmptyDict]

\* The configurations a caller passes: dicts, and a value that is no dict.
CfgA == [provider |-> "openai", model |-> "gpt-4o-mini", system_prompt |-> "S1",
         user_prompt |-> "u1"]
CfgB == [provider |-> "anthropic", model |-> "custom-model", system_prompt |-> "S2",
         temperature |-> "0.2", seed |-> "42"]
NotADict == [str |-> "text"]
Configs == {CfgA, CfgB, [CfgA EXCEPT !.provider = "bogus"], Without(CfgA, {"model"}), NotADict}

\* The values of arguments["comparisons"]: a list, or something that is none.
List(items) == [list |-> TRUE, items |-> items]
NotAList == [list |-> FALSE, items |-> <<>>]
CmpArguments ==
    {EmptyDict, [comparisons |-> NotAList]}
    \cup {[comparisons |-> List(items)] :
             items \in UNION {[1..n -> Configs] : n \in 0..(MaxComparisons + 1)}}

\* A check that would turn away a model that is not in the provider's catalog.
ConfigCheck_KnownModels(config, keys) ==
    IF config = NotADict THEN [pc |-> "raised", result |-> EmptyDict]
    ELSE IF Null \in {Get(config, "provider"), Get(config, "model"), Get(config, "system_prompt"),
                      GetOr(config, "user_prompt", "")}
    THEN [pc |-> "returned", result |-> Error("missing_parameters")]
    ELSE IF config.provider \notin PROVIDERS
    THEN [pc |-> "returned", result |-> Error("not_supported")]
    ELSE IF ~Truthy(get_api_key(config.provider, keys))
    THEN [pc |-> "returned", result |-> Error("no_api_key")]
    ELSE IF ~\E m \in get_default_models(config.provider) : m.name = config.model
    THEN [pc |-> "returned", result |-> Error("not_supported")]
    ELSE [pc |-> "adapter", result |-> EmptyDict]

\* run_comparison up to its adapter call, on one configuration: what it returns
\* there, or that it goes on to the adapter.  config.get on a value that is no
\* dict raises outside run_comparison's try block.
ConfigCheck(config, keys) ==
    IF config = NotADict THEN [pc |-> "raised", result |-> EmptyDict]
    ELSE IF Null \in {Get(config, "provider"), Get(config, "model"), Get(config, "system_prompt"),
                      GetOr(config, "user_prompt", "")}
    THEN [pc |-> "returned", result |-> Error("missing_parameters")]
    ELSE IF config.provider \notin PROVIDERS
    THEN [pc |-> "returned", result |-> Error("not_supported")]
    ELSE IF ~Truthy(get_api_key(config.provider, keys))
    THEN [pc |-> "returned", result |-> Error("no_api_key")]
    ELSE [pc |-> "adapter", result |-> EmptyDict]

\* run_comparison from the adapter's answer on.
ConfigResult(config, o) ==
    LET r == Adapter("generate", config.provider, config.model, o) IN
    IF r.raised THEN Error("provider_error")
    ELSE [isError |-> FALSE, response |-> r.result.text, model |-> r.result.model,
          provider |-> config.provider,
          usage |-> GetOr(r.result, "usage", EmptyDict),
          costs |-> GetOr(r.result, "costs", EmptyDict),
          response_time |-> GetOr(r.result, "response_time", 0),
          metadata |-> Without(r.result, {"text", "model", "usage", "costs", "response_time"})]

Finished(slot) == slot.pc \in {"returned", "raised"}

\* A runner that would take a list of any length above zero.
test_comparison_NoUpperBound(arguments) ==
    LET comparisons == GetOr(arguments, "comparisons", NotAList) IN
    /\ cmp.pc = "idle"
    /\ cmp' = IF ~comparisons.list \/ comparisons.items = <<>>
              THEN [CmpIdle EXCEPT !.pc = "done", !.arguments = arguments,
                                   !.resp = Error("not_a_list")]
              ELSE [CmpIdle EXCEPT !.pc = "gather", !.arguments = arguments,
                                   !.slots = [i \in 1..Len(comparisons.items) |->
                                                 [pc |-> "ready", result |-> EmptyDict]]]
    /\ UNCHANGED <<apiKeys, db, nextId, writer, th, turns, closed>>

\* test_comparison up to asyncio.gather: the checks of the list, and one task
\* per configuration, in the order of the list.
test_comparison(arguments) ==
    LET comparisons == GetOr(arguments, "comparisons", NotAList) IN
    /\ cmp.pc = "idle"
    /\ cmp' = IF ~comparisons.list \/ comparisons.items = <<>>
              THEN [CmpIdle EXCEPT !.pc = "done", !.arguments = arguments,
                                   !.resp = Error("not_a_list")]
              ELSE IF ~(1 <= Len(comparisons.items) /\ Len(comparisons.items) <= MaxComparisons)
              THEN [CmpIdle EXCEPT !.pc = "done", !.arguments = arguments,
                                   !.resp = Error("between_1_and_4")]
              ELSE [CmpIdle EXCEPT !.pc = "gather", !.arguments = arguments,
                                   !.slots = [i \in 1..Len(comparisons.items) |->
                                                 [pc |-> "ready", result |-> EmptyDict]]]
    /\ UNCHANGED <<apiKeys, db, nextId, writer, th, turns, closed>>

CmpCall == \E arguments \in CmpArguments : test_comparison(arguments)

\* A runner that would run a slot only after the slots before it succeeded.
SlotReady_AfterSuccess(i) ==
    /\ cmp.pc = "gather"
    /\ i \in 1..Len(cmp.slots)
    /\ cmp.slots[i].pc = "ready"
    /\ \A j \in 1..(i - 1) : cmp.slots[j].pc = "returned" /\ ~cmp.slots[j].result.isError

\* The event loop runs the task of slot i: the tasks stand in its queue in the
\* order gather made them, and a task that never suspends runs to its end, so
\* slot i runs when every slot before it has finished.  The adapters call the
\* vendor's synchronous client: the thread is blocked until the call returns.
SlotReady(i) ==
    /\ cmp.pc = "gather"
    /\ i \in 1..Len(cmp.slots)
    /\ cmp.slots[i].pc = "ready"
    /\ \A j \in 1..(i - 1) : Finished(cmp.slots[j])

\* run_comparison of slot i up to its adapter call.
SlotRun(i) ==
    /\ SlotReady(i)
    /\ cmp' = [cmp EXCEPT !.slots[i] = ConfigCheck(cmp.arguments.comparisons.items[i], apiKeys)]
    /\ UNCHANGED <<apiKeys, db, nextId, writer, th, turns, closed>>

\* A slot that would call the adapter again when the call failed.
SlotReturn_Retries(i) ==
    /\ cmp.pc = "gather"
    /\ i \in 1..Len(cmp.slots)
    /\ cmp.slots[i].pc = "adapter"
    /\ \E o \in VendorOutcomes :
          cmp' = [cmp EXCEPT !.slots[i] =
                     IF ConfigResult(cmp.arguments.comparisons.items[i], o).isError
                     THEN [pc |-> "ready", result |-> EmptyDict]
                     ELSE [pc |-> "returned",
                           result |-> ConfigResult(cmp.arguments.comparisons.items[i], o)]]
    /\ UNCHANGED <<apiKeys, db, nextId, writer, th, turns, closed>>

\* The adapter call of slot i returns or raises, and run_comparison returns.
SlotReturn(i) ==
    /\ cmp.pc = "gather"
    /\ i \in 1..Len(cmp.slots)
    /\ cmp.slots[i].pc = "adapter"
    /\ \E o \in VendorOutcomes :
          cmp' = [cmp EXCEPT !.slots[i] =
                     [pc |-> "returned",
                      result |-> ConfigResult(cmp.arguments.comparisons.items[i], o)]]
    /\ UNCHANGED <<apiKeys, db, nextId, writer, th, turns, closed>>

\* A join that would fail the whole comparison when a slot holds an error.
CmpJoin_Taints ==
    /\ cmp.pc = "gather"
    /\ \A i \in 1..Len(cmp.slots) : Finished(cmp.slots[i])
    /\ cmp' = [cmp EXCEPT !.pc = "done",
                          !.resp = IF \E i \in 1..Len(cmp.slots) :
                                          cmp.slots[i].pc = "raised" \/ cmp.slots[i].result.isError
                                   THEN Error("unexpected")
                                   ELSE [isError |-> FALSE,
                                         results |-> [i \in 1..Len(cmp.slots) |-> cmp.slots[i].result]]]
    /\ UNCHANGED <<apiKeys, db, nextId, writer, th, turns, closed>>

\* A join that would list the results last slot first.
CmpJoin_Reversed ==
    /\ cmp.pc = "gather"
    /\ \A i \in 1..Len(cmp.slots) : Finished(cmp.slots[i])
    /\ cmp' = [cmp EXCEPT !.pc = "done",
                          !.resp = IF \E i \in 1..Len(cmp.slots) : cmp.slots[i].pc = "raised"
                                   THEN Error("unexpected")
                                   ELSE [isError |-> FALSE,
                                         results |-> [i \in 1..Len(cmp.slots) |->
                                                         cmp.slots[Len(cmp.slots) + 1 - i].result]]]
    /\ UNCHANGED <<apiKeys, db, nextId, writer, th, turns, closed>>

\* A join that would return as soon as one slot has finished.
CmpJoin_Early ==
    /\ cmp.pc = "gather"
    /\ \E i \in 1..Len(cmp.slots) : Finished(cmp.slots[i])
    /\ cmp' = [cmp EXCEPT !.pc = "done",
                          !.resp = IF \E i \in 1..Len(cmp.slots) : cmp.slots[i].pc = "raised"
                                   THEN Error("unexpected")
                                   ELSE [isError |-> FALSE,
                                         results |-> [i \in 1..Len(cmp.slots) |-> cmp.slots[i].result]]]
    /\ UNCHANGED <<apiKeys, db, nextId, writer, th, turns, closed>>

\* await asyncio.gather(...) returns the results in the order of its arguments
\* when every task is done, or raises what a task raised (to the except clause
\* of test_comparison) after the tasks queued with it have run.
CmpJoin ==
    /\ cmp.pc = "gather"
    /\ \A i \in 1..Len(cmp.slots) : Finished(cmp.slots[i])
    /\ cmp' = [cmp EXCEPT !.pc = "done",
                          !.resp = IF \E i \in 1..Len(cmp.slots) : cmp.slots[i].pc = "raised"
                                   THEN Error("unexpected")
                                   ELSE [isError |-> FALSE,
                                         results |-> [i \in 1..Len(cmp.slots) |-> cmp.slots[i].result]]]
    /\ UNCHANGED <<apiKeys, db, nextId, writer, th, turns, closed>>

\* The caller has the runner's response.
CmpDeliver ==
    /\ cmp.pc = "done"
    /\ cmp' = CmpIdle
    /\ UNCHANGED <<apiKeys, db, nextId, writer, th, turns, closed>>

Init ==
    /\ apiKeys \in Environments
    /\ db = EmptyDb
    /\ nextId = 0
    /\ writer = NoThread
    /\ th = [t \in Threads |-> Idle]
    /\ turns = [c \in Ids |-> <<>>]
    /\ closed = {}
    /\ cmp = CmpIdle

ThreadStep(t) ==
    \/ Call(t)
    \/ StartReturn(t)
    \/ ContinueInsert(t)
    \/ ContinueReturn(t)
    \/ GetHistory(t)
    \/ ListSummaries(t)
    \/ CloseDelete(t)
    \/ Deliver(t)

\* Callers on every thread.
Next == (\E t \in Threads : ThreadStep(t)) \/ Restart
Spec == Init /\ [][Next]_vars

\* A single caller, one operation at a time.
SeqNext == ThreadStep(ThreadNames[1]) \/ Restart
SpecSeq == Init /\ [][SeqNext]_vars

\* The comparison runner alone, in either environment.
CmpNext ==
    \/ CmpCall
    \/ \E i \in 1..MaxComparisons : SlotRun(i)
    \/ \E i \in 1..MaxComparisons : SlotReturn(i)
    \/ CmpJoin
    \/ CmpDeliver
SpecCmp == Init /\ [][CmpNext]_vars

\* close_db_connection() raises in the entry point's finally clause, which no
\* handler encloses (lines 132-134): the exception replaces the return value
\* and leaves the entry point, and `del local.conn` (line 36) is skipped.  What
\* the thread's later calls do with the connection left behind is not followed.
CloseRaises(t) ==
    /\ th[t].pc = "done"
    /\ th' = [th EXCEPT ![t] = [@ EXCEPT !.pc = "raised", !.resp = EmptyDict]]
    /\ UNCHANGED <<apiKeys, db, nextId, writer, turns, closed, cmp>>

\* The single caller of SpecSeq, with a connection whose close can fail.
NextClose == SeqNext \/ CloseRaises(ThreadNames[1])
SpecClose == Init /\ [][NextClose]_vars

\* Callers on every thread, the first of which also calls the comparison
\* runner (a caller does one thing at a time), with calls that take each
\* operation through each of its steps.  The process is not stopped.  Every
\* step the code takes by itself is taken sooner or later (the operating system
\* schedules every thread); the adapter calls of the last thread need not return.
LiveArguments ==
    {StartA, [StartA EXCEPT !.provider = "bogus"], [mode |-> "list"],
     [mode |-> "get", conversation_id |-> UUIDs[1]],
     [mode |-> "close", conversation_id |-> UUIDs[1]],
     [mode |-> "continue", conversation_id |-> UUIDs[1], user_prompt |-> "u3"]}
LiveCmpArguments ==
    {[comparisons |-> List(<<CfgA>>)],
     [comparisons |-> List(<<CfgA, [CfgA EXCEPT !.provider = "bogus"]>>)]}
LiveCall(t) ==
    /\ Quiet
    /\ th[t].pc = "idle"
    /\ t = ThreadNames[1] => cmp.pc = "idle"
    /\ \E args \in LiveArguments : test_multiturn_conversation(t, args)
LiveCmpCall ==
    /\ th[ThreadNames[1]].pc = "idle"
    /\ \E arguments \in LiveCmpArguments : test_comparison(arguments)

AdapterReturn(t) == StartReturn(t) \/ ContinueReturn(t)
Proceed(t) == ContinueInsert(t) \/ GetHistory(t) \/ ListSummaries(t) \/ CloseDelete(t)
SlotStep == \E i \in 1..MaxComparisons : SlotRun(i) \/ SlotReturn(i)

LiveNext ==
    \/ \E t \in Threads : LiveCall(t) \/ AdapterReturn(t) \/ Proceed(t) \/ Deliver(t)
    \/ LiveCmpCall
    \/ SlotStep
    \/ CmpJoin
    \/ CmpDeliver

Hanging == ThreadNames[NumThreads]
Fairness ==
    /\ \A t \in Threads : SF_vars(Proceed(t)) /\ WF_vars(Deliver(t))
    /\ \A t \in Threads \ {Hanging} : SF_vars(AdapterReturn(t))
    /\ WF_vars(SlotStep) /\ WF_vars(CmpJoin) /\ WF_vars(CmpDeliver)
SpecLive == Init /\ [][LiveNext]_vars /\ Fairness

\* Callers that are tasks of one event loop, as when a server dispatches each
\* request to a task: a handler never suspends, so the loop runs one operation
\* from its call to its return, the adapter's blocking call included, before
\* it runs a step of any other task.
LoopStep(t) ==
    /\ \A u \in Threads \ {t} : th[u].pc \in {"idle", "done"}
    /\ ThreadStep(t)
LoopNext == \E t \in Threads : LoopStep(t)
SpecLoop == Init /\ [][LoopNext]_vars

\* Callers on threads that race on one conversation: its start, two
\* continuations with different user messages, get, list and close, and the
\* close of another id.  The conversation is driven one exchange further than
\* elsewhere, so that two continuations can be under way on its first exchange.
RaceTurns == MaxTurns + 1
RaceArguments ==
    {StartA, [mode |-> "list"],
     [mode |-> "continue", conversation_id |-> UUIDs[1], user_prompt |-> "u3"],
     [mode |-> "continue", conversation_id |-> UUIDs[1], user_prompt |-> "u4"],
     [mode |-> "get", conversation_id |-> UUIDs[1]],
     [mode |-> "close", conversation_id |-> UUIDs[1]],
     [mode |-> "close", conversation_id |-> UUIDs[2]]}
RaceCall(t) ==
    /\ Quiet
    /\ th[t].pc = "idle"
    /\ \E args \in RaceArguments : EntryPoint(t, args, RaceTurns)
RaceStep(t) ==
    \/ RaceCall(t)
    \/ StartReturn(t)
    \/ ContinueInsert(t)
    \/ ContinueReturn(t)
    \/ GetHistory(t)
    \/ ListSummaries(t)
    \/ CloseDelete(t)
    \/ Deliver(t)
RaceNext == \E t \in Threads : RaceStep(t)
SpecRace == Init /\ [][RaceNext]_vars

\* ================================================================ claims
Mode(t) == Get(th[t].arguments, "mode")
Returned(t) == th[t].pc = "done"
Failed(t) == Returned(t) /\ th[t].resp.isError
Succeeded(t) == Returned(t) /\ ~th[t].resp.isError
InLog(log, e) == \E i \in 1..Len(log) : log[i] = e
Front(s) == SubSeq(s, 1, Len(s) - 1)

\* C1: a continue call that fails after its user message was appended (the
\* adapter raises, the reply has no text, the provider cannot be constructed)
\* leaves the committed store as it was before the step: the history of the
\* conversation is the connection's history without the pending user message,
\* and the connection's transaction is gone.
C1_Step ==
    \A t \in Threads :
        (th[t].pc \in {"insert", "adapter"} /\ Mode(t) = "continue"
         /\ th'[t].pc = "done" /\ th'[t].resp.isError)
        => /\ db' = db
           /\ ~th'[t].txn.open
           /\ writer' # t
           /\ th[t].pc = "adapter"
              => db'.conversation_history[th[t].conversation_id]
                     = Front(th[t].txn.view.conversation_history[th[t].conversation_id])
C1_FailedContinueLeavesHistory == [][C1_Step]_vars

\* A continue call came back with a provider error after the adapter was called.
C1_Witness ==
    \E t \in Threads :
        /\ Failed(t) /\ Mode(t) = "continue"
        /\ th[t].resp.error = "provider_error"
        /\ InLog(th[t].log, "adapter")
        /\ Len(db.conversation_history[th[t].conversation_id]) = 2

\* C2: a start call that fails after its id was drawn (the adapter raises, the
\* reply has no text, the store refuses the write) leaves the committed store as
\* it was, with no record and no message under the new id.
C2_Step ==
    \A t \in Threads :
        (th[t].pc = "adapter" /\ Mode(t) = "start"
         /\ th'[t].pc = "done" /\ th'[t].resp.isError)
        => /\ db' = db
           /\ th[t].conversation_id \notin DOMAIN db'.conversations
           /\ db'.conversation_history[th[t].conversation_id] = <<>>
           /\ ~th'[t].txn.open
C2_FailedStartLeavesNoRecord == [][C2_Step]_vars

\* A start call came back with a provider error, its id drawn, another
\* conversation in the store.
C2_Witness ==
    \E t \in Threads :
        /\ Failed(t) /\ Mode(t) = "start"
        /\ th[t].resp.error = "provider_error"
        /\ th[t].conversation_id # Null
        /\ DOMAIN db.conversations # {}

\* C3: what get and list return is the committed store: the history of get is
\* the committed history and the counts and messages of list are those of the
\* committed histories, and neither holds the pending user message of a
\* continue call that has not returned.
C3_NoInFlightStateVisible ==
    \A t \in Threads :
        Succeeded(t) =>
            /\ Mode(t) = "get" =>
                  /\ th[t].resp.history = db.conversation_history[th[t].conversation_id]
                  /\ \A u \in Continuing(th[t].conversation_id) :
                        th[u].txn.open =>
                            th[t].resp.history # th[u].txn.view.conversation_history[th[t].conversation_id]
            /\ Mode(t) = "list" =>
                  \A c \in DOMAIN th[t].resp.conversations :
                      /\ th[t].resp.conversations[c].message_count = Len(db.conversation_history[c])
                      /\ \A u \in Continuing(c) :
                            th[u].txn.open =>
                                th[t].resp.conversations[c].message_count
                                    < Len(th[u].txn.view.conversation_history[c])

\* A get returned while a continue call on the same conversation had its user
\* message pending.
C3_Witness ==
    \E t \in Threads :
        /\ Succeeded(t) /\ Mode(t) = "get"
        /\ \E u \in Continuing(th[t].conversation_id) : th[u].txn.open

\* The messages of a sequence of successful turns: user, assistant, user, ...
RECURSIVE TurnMessages(_)
TurnMessages(ts) ==
    IF ts = <<>> THEN <<>>
    ELSE <<[role |-> "user", content |-> UserPrompt(ts[1].arguments)],
           [role |-> "assistant", content |-> ts[1].result.text]>> \o TurnMessages(Tail(ts))
Alternates(h) ==
    \A i \in 1..Len(h) : h[i].role = IF i % 2 = 1 THEN "user" ELSE "assistant"

\* C4: with a single caller, the stored history of every conversation, and the
\* history get returns, is the user and assistant message of each successful
\* start and continue call in call order; it alternates user, assistant and
\* begins with user; failed calls contribute nothing.
C4_HistoryAlternates ==
    /\ \A c \in DOMAIN db.conversations :
          /\ db.conversation_history[c] = TurnMessages(turns[c])
          /\ Alternates(db.conversation_history[c])
          /\ Len(db.conversation_history[c]) >= 2
    /\ \A t \in Threads :
          (Succeeded(t) /\ Mode(t) = "get") =>
              /\ th[t].resp.history = TurnMessages(turns[th[t].conversation_id])
              /\ Alternates(th[t].resp.history)

\* get returned the four messages of a start and a continuation.
C4_Witness ==
    \E t \in Threads :
        /\ Succeeded(t) /\ Mode(t) = "get"
        /\ Len(th[t].resp.history) = 4
        /\ th[t].resp.history[3].content = "u3"

\* C5: the system prompt, provider and model of a stored conversation, and
\* those get returns, are the ones its start call passed, whatever the continue
\* calls passed as system_prompt and whatever model the adapter echoed.
C5_OriginFieldsFixed ==
    /\ \A c \in DOMAIN db.conversations :
          /\ turns[c] # <<>>
          /\ db.conversations[c].system_prompt = turns[c][1].arguments.system_prompt
          /\ db.conversations[c].provider = turns[c][1].arguments.provider
          /\ db.conversations[c].model = turns[c][1].arguments.model
    /\ \A t \in Threads :
          (Succeeded(t) /\ Mode(t) = "get" /\ th[t].conversation_id \in DOMAIN db.conversations) =>
              LET origin == turns[th[t].conversation_id][1].arguments IN
              /\ th[t].resp.system_prompt = origin.system_prompt
              /\ th[t].resp.provider = origin.provider
              /\ th[t].resp.model = origin.model

\* get returned after a continuation that passed a system prompt and for which
\* the adapter echoed another model than the one requested.
C5_Witness ==
    \E t \in Threads :
        /\ Succeeded(t) /\ Mode(t) = "get"
        /\ Len(turns[th[t].conversation_id]) = 2
        /\ "system_prompt" \in DOMAIN turns[th[t].conversation_id][2].arguments
        /\ turns[th[t].conversation_id][2].result.model # th[t].resp.model

\* C6: the usage, costs and response time stored with a conversation are those
\* the adapter reported for the latest successful turn, never a sum over turns;
\* get returns the metrics of one turn, the latest one unless the row changed
\* after get read it; a failed continuation leaves them as they were.
C6_MetricsOfLatestTurn ==
    /\ \A c \in DOMAIN db.conversations :
          LET last == turns[c][Len(turns[c])].result IN
          /\ json_loads(db.conversations[c].usage) = last.usage
          /\ json_loads(db.conversations[c].costs) = GetOr(last, "costs", EmptyDict)
          /\ db.conversations[c].response_time = last.response_time
    /\ \A t \in Threads :
          (Succeeded(t) /\ Mode(t) = "get" /\ th[t].conversation_id \in DOMAIN db.conversations) =>
              LET ts == turns[th[t].conversation_id]
                  of(i) == /\ th[t].resp.usage = ts[i].result.usage
                           /\ th[t].resp.costs = GetOr(ts[i].result, "costs", EmptyDict)
                           /\ th[t].resp.response_time = ts[i].result.response_time
              IN /\ \E i \in 1..Len(ts) : of(i)
                 /\ th[t].row = db.conversations[th[t].conversation_id] => of(Len(ts))

\* get returned the metrics of the second turn, which differ from the first's.
C6_Witness ==
    \E t \in Threads :
        /\ Succeeded(t) /\ Mode(t) = "get"
        /\ Len(turns[th[t].conversation_id]) = 2
        /\ turns[th[t].conversation_id][1].result.usage # turns[th[t].conversation_id][2].result.usage
        /\ turns[th[t].conversation_id][1].result.response_time
               # turns[th[t].conversation_id][2].result.response_time
        /\ th[t].resp.usage = turns[th[t].conversation_id][2].result.usage

\* Thread t's caller invokes the tool in this step, with the given mode.
Calls(t, mode) ==
    th[t].pc = "idle" /\ th'[t].pc # "idle" /\ Get(th'[t].arguments, "mode") = mode

\* C7: close removes the record and every message of the conversation in one
\* commit: no committed store has a record without messages or messages without
\* a record; a close that succeeds leaves neither and touches no other
\* conversation; every get and continue called on the id afterwards fails with
\* not-found, and the rows a later list reads do not hold the id.
C7_Step ==
    /\ \A c \in Ids : (c \in DOMAIN db'.conversations) <=> (db'.conversation_history[c] # <<>>)
    /\ \A t \in Threads :
          /\ (th[t].pc = "delete" /\ th'[t].pc = "done" /\ ~th'[t].resp.isError) =>
                /\ th[t].conversation_id \notin DOMAIN db'.conversations
                /\ db'.conversation_history[th[t].conversation_id] = <<>>
                /\ \A c \in Ids \ {th[t].conversation_id} :
                      /\ db'.conversation_history[c] = db.conversation_history[c]
                      /\ (c \in DOMAIN db.conversations) <=> (c \in DOMAIN db'.conversations)
                      /\ c \in DOMAIN db.conversations => db'.conversations[c] = db.conversations[c]
          /\ \A mode \in {"get", "continue"} :
                (Calls(t, mode) /\ Get(th'[t].arguments, "conversation_id") \in closed) =>
                    /\ th'[t].pc = "done"
                    /\ th'[t].resp = Error("not_found")
          /\ Calls(t, "list") => DOMAIN th'[t].rows \cap closed = {}
C7_CloseIsAtomic == [][C7_Step]_vars

\* A close succeeded on a conversation with messages, another conversation in
\* the store.
C7_Witness ==
    \E t \in Threads :
        /\ Succeeded(t) /\ Mode(t) = "close"
        /\ th[t].conversation_id \in closed
        /\ th[t].conversation_id \notin DOMAIN db.conversations
        /\ DOMAIN db.conversations # {}

\* C8: a close called with an id that names no conversation in the store (never
\* drawn, never committed, or closed before) returns the not-found error, every
\* time, and leaves the store as it was.
C8_Step ==
    \A t \in Threads :
        (/\ Calls(t, "close")
         /\ Truthy(Get(th'[t].arguments, "conversation_id"))
         /\ Get(th'[t].arguments, "conversation_id") \notin DOMAIN db.conversations)
        => /\ th'[t].pc = "done"
           /\ th'[t].resp = Error("not_found")
           /\ db' = db
           /\ UNCHANGED <<turns, closed>>
C8_CloseOfAbsentIdFails == [][C8_Step]_vars

\* A close of an id closed before returned not-found, another conversation in
\* the store.
C8_Witness ==
    \E t \in Threads :
        /\ Failed(t) /\ Mode(t) = "close"
        /\ th[t].resp.error = "not_found"
        /\ th[t].conversation_id \in closed
        /\ DOMAIN db.conversations # {}

\* The effects a handler's log records, by kind.
Checks == {"registry", "credential", "construct"}
Writes == {"insert", "update", "delete"}
Rank(e) == IF e = "required" THEN 1 ELSE IF e \in Checks THEN 2
           ELSE IF e = "adapter" THEN 3 ELSE IF e \in Writes THEN 4 ELSE 0
Ordered(log) ==
    \A i, j \in 1..Len(log) :
        (i < j /\ Rank(log[i]) > 0 /\ Rank(log[j]) > 0) => Rank(log[i]) <= Rank(log[j])
\* Every b in the log has an a before it; no a in the log has a b after it.
Precedes(log, a, b) ==
    \A j \in 1..Len(log) : log[j] = b => \E i \in 1..(j - 1) : log[i] = a
NeverBefore(log, a, b) ==
    \A i, j \in 1..Len(log) : i < j => ~(log[i] = a /\ log[j] = b)

\* C9 as stated: in every operation the required-field checks come before the
\* provider and credential checks, these before the adapter call, and the adapter
\* call before every write to the store, the user-message insert of continue
\* included.
C9_NoWriteBeforeAdapter == \A t \in Threads : Ordered(th[t].log)

\* C9: in start the effects come in the order required-field checks, registry
\* and credential checks, adapter call, writes; get, list and close call no
\* adapter; continue checks its required field, reads, inserts the user message,
\* and only then constructs the provider and calls the adapter, the other writes
\* following; in no operation is anything committed before the adapter returned.
C9_OrderOfEffects ==
    \A t \in Threads :
        LET log == th[t].log IN
        /\ Precedes(log, "required", "adapter")
        /\ Precedes(log, "construct", "adapter")
        /\ NeverBefore(log, "commit", "adapter")
        /\ NeverBefore(log, "update", "adapter")
        /\ NeverBefore(log, "delete", "adapter")
        /\ Mode(t) = "start" =>
              /\ Ordered(log)
              /\ Precedes(log, "registry", "adapter")
              /\ Precedes(log, "credential", "adapter")
        /\ Mode(t) \in {"get", "list", "close"} => ~InLog(log, "adapter")
        /\ Mode(t) = "continue" =>
              /\ Precedes(log, "insert", "construct")
              /\ InLog(log, "adapter") =>
                    Cardinality({i \in 1..Len(log) :
                                   log[i] = "insert" /\ \E j \in (i + 1)..Len(log) : log[j] = "adapter"}) = 1
              /\ Ordered(SelectSeq(log, LAMBDA e : e # "insert"))

\* A continuation succeeded: its log has the user-message insert before the
\* provider's construction and the adapter call, the commit at the end.
C9_Witness ==
    \E t \in Threads :
        /\ Succeeded(t) /\ Mode(t) = "continue"
        /\ th[t].log = <<"required", "select", "select", "insert", "construct", "adapter",
                         "insert", "update", "commit">>

\* The start arguments that fail validation in the environment keys.
InvalidStart(args, keys) ==
    \/ ~Truthy(Get(args, "provider"))
    \/ ~Truthy(Get(args, "model"))
    \/ ~Truthy(Get(args, "system_prompt"))
    \/ Get(args, "provider") \notin PROVIDERS
    \/ Get(args, "provider") \notin keys

\* C10: a start call whose provider, model or system prompt is missing, null or
\* empty, whose provider is not registered, or whose provider has no credential
\* returns an error in the step it is called in, without an id drawn, without an
\* adapter call, and with the store, and so what list reports, as before.
C10_Step ==
    \A t \in Threads :
        (Calls(t, "start") /\ InvalidStart(th'[t].arguments, apiKeys))
        => /\ th'[t].pc = "done"
           /\ th'[t].resp.isError
           /\ ~InLog(th'[t].log, "adapter")
           /\ th'[t].conversation_id = Null
           /\ nextId' = nextId
           /\ db' = db
C10_InvalidStartCreatesNothing == [][C10_Step]_vars

\* A start call for a provider without credential returned its error, a
\* conversation in the store.
C10_Witness ==
    \E t \in Threads :
        /\ Failed(t) /\ Mode(t) = "start"
        /\ th[t].resp.error = "no_api_key"
        /\ th[t].conversation_id = Null
        /\ DOMAIN db.conversations # {}

\* C11: continue, get and close called with an id that names no conversation
\* in the store return the not-found error in the step they are called in,
\* call no adapter, take no lock and leave the store as it was.
C11_Step ==
    \A t \in Threads : \A mode \in {"continue", "get", "close"} :
        (/\ Calls(t, mode)
         /\ Truthy(Get(th'[t].arguments, "conversation_id"))
         /\ Get(th'[t].arguments, "conversation_id") \notin DOMAIN db.conversations)
        => /\ th'[t].pc = "done"
           /\ th'[t].resp = Error("not_found")
           /\ ~InLog(th'[t].log, "adapter")
           /\ ~InLog(th'[t].log, "insert")
           /\ db' = db
           /\ writer' = writer
C11_AbsentIdIsNotFound == [][C11_Step]_vars

\* A continue on an id that never named a conversation returned not-found,
\* with a conversation in the store.
C11_Witness ==
    \E t \in Threads :
        /\ Failed(t) /\ Mode(t) = "continue"
        /\ th[t].resp.error = "not_found"
        /\ th[t].conversation_id \notin closed
        /\ DOMAIN db.conversations # {}

\* C12: no step of a get or of a list, on any id and in any store, changes the
\* store, takes the write lock or leaves a transaction open.
C12_Step ==
    \A t \in Threads :
        (\/ Calls(t, "get")
         \/ Calls(t, "list")
         \/ (th[t].pc \in {"history", "summaries"} /\ th'[t].pc = "done"))
        => /\ db' = db
           /\ writer' = writer
           /\ ~th'[t].txn.open
C12_ReadsArePure == [][C12_Step]_vars

\* A list returned the summaries of two conversations.
C12_Witness ==
    \E t \in Threads :
        /\ Succeeded(t) /\ Mode(t) = "list"
        /\ th[t].resp.conversation_count = 2
        /\ \A c \in DOMAIN th[t].resp.conversations :
              th[t].resp.conversations[c].message_count >= 2

\* Thread t's start, or close, returns success in this step.
StartSucceeds(t) ==
    /\ th[t].pc = "adapter" /\ Mode(t) = "start"
    /\ th'[t].pc = "done" /\ ~th'[t].resp.isError
CloseSucceeds(t) ==
    /\ th[t].pc = "delete"
    /\ th'[t].pc = "done" /\ ~th'[t].resp.isError

\* C13: the set of conversation ids in the store changes only in a step in
\* which a start or a close returns success; such a start adds exactly the id
\* it returns, which was not in the store and never was; such a close removes
\* exactly the id it was given; every other step leaves the set as it is.
C13_Step ==
    LET ids    == DOMAIN db.conversations
        after  == DOMAIN db'.conversations
    IN /\ after # ids => \E t \in Threads : StartSucceeds(t) \/ CloseSucceeds(t)
       /\ \A t \in Threads :
             /\ StartSucceeds(t) =>
                   /\ th[t].conversation_id \notin ids \cup closed
                   /\ after = ids \cup {th[t].conversation_id}
                   /\ th'[t].resp.conversation_id = th[t].conversation_id
             /\ CloseSucceeds(t) =>
                   /\ after = ids \ {th[t].conversation_id}
                   /\ th[t].conversation_id = th[t].arguments.conversation_id
C13_IdsChangeByStartAndClose == [][C13_Step]_vars

\* A start returned a new id after another conversation had been closed.
C13_Witness ==
    \E t \in Threads :
        /\ Succeeded(t) /\ Mode(t) = "start"
        /\ closed # {}
        /\ th[t].conversation_id \in DOMAIN db.conversations
        /\ th[t].conversation_id \notin closed

\* A response of the entry point: isError, and an error string with it when true.
IsResponse(resp) ==
    /\ "isError" \in DOMAIN resp
    /\ resp.isError \in BOOLEAN
    /\ resp.isError => "error" \in DOMAIN resp

\* C14 as stated: every call of the entry point ends with one response that
\* carries isError (and an error string when true), whatever fails: the
\* adapter, the store, the rollback or the close of the connection; no
\* exception leaves the entry point.
C14_NoExceptionEscapes ==
    \A t \in Threads :
        /\ th[t].pc # "raised"
        /\ th[t].pc = "done" => IsResponse(th[t].resp)
        /\ th[t].pc # "done" => th[t].resp = EmptyDict

\* The exception of a failed close left the entry point of a call whose
\* handler had its response ready.
C14_Witness ==
    \E t \in Threads :
        /\ th[t].pc = "raised"
        /\ Mode(t) = "list"
        /\ DOMAIN db.conversations # {}

\* The runner has returned for a list of 1 to 4 configurations, all of them dicts.
Items == cmp.arguments.comparisons.items
Compared ==
    /\ cmp.pc = "done"
    /\ cmp.slots # <<>>
    /\ \A i \in 1..Len(Items) : Items[i] # NotADict

\* The outcomes a configuration has when it is run by itself.
Alone(config, keys) ==
    IF ConfigCheck(config, keys).pc = "adapter"
    THEN {ConfigResult(config, o) : o \in VendorOutcomes}
    ELSE {ConfigCheck(config, keys).result}

\* C15: for every list of 1 to 4 configurations the aggregate response has
\* isError false and one entry per configuration; a configuration with an
\* unsupported provider or without credential has an error entry in its own
\* slot, and every slot holds an outcome its configuration has when run by
\* itself, whatever the other slots hold.
C15_FailuresStayInTheirSlot ==
    Compared =>
        /\ ~cmp.resp.isError
        /\ Len(cmp.resp.results) = Len(Items)
        /\ \A i \in 1..Len(Items) :
              LET config == Items[i]
                  provider == Get(config, "provider")
                  entry == cmp.resp.results[i]
              IN /\ entry \in Alone(config, apiKeys)
                 /\ (provider # Null /\ provider \notin PROVIDERS) => entry.isError
                 /\ (provider \in PROVIDERS /\ provider \notin apiKeys) => entry.isError
                 /\ (~entry.isError) => (provider \in PROVIDERS /\ provider \in apiKeys)

\* Three configurations, the second with an unsupported provider: its slot
\* holds the error, the first and the third hold responses.
C15_Witness ==
    /\ Compared
    /\ Len(Items) = 3
    /\ ~cmp.resp.isError
    /\ cmp.resp.results[2] = Error("not_supported")
    /\ ~cmp.resp.results[1].isError
    /\ ~cmp.resp.results[3].isError

\* C16: the result list has as many entries as the input list, and entry i is
\* what the run of configuration i returned: a response for the provider and
\* model of configuration i, or the error of configuration i.
C16_ResultsInInputOrder ==
    Compared =>
        /\ Len(cmp.resp.results) = Len(Items)
        /\ \A i \in 1..Len(Items) :
              /\ cmp.resp.results[i] = cmp.slots[i].result
              /\ ~cmp.resp.results[i].isError =>
                    /\ cmp.resp.results[i].provider = Items[i].provider
                    /\ cmp.resp.results[i].model = Items[i].model
              /\ cmp.resp.results[i].isError =>
                    \/ cmp.resp.results[i] = Error("provider_error")
                    \/ cmp.resp.results[i] = ConfigCheck(Items[i], apiKeys).result

\* Two different configurations, both answered: the entries stand in the
\* order of the configurations.
C16_Witness ==
    /\ Compared
    /\ Items = <<CfgB, CfgA>>
    /\ ~cmp.resp.results[1].isError /\ cmp.resp.results[1].provider = "anthropic"
    /\ ~cmp.resp.results[2].isError /\ cmp.resp.results[2].provider = "openai"

\* C17 as stated: the slots run concurrently; while the adapter call of one
\* slot has not returned, a later slot that has not yet run can run.
C17_SlotsRunConcurrently ==
    \A i, j \in 1..MaxComparisons :
        (/\ cmp.pc = "gather"
         /\ i < j /\ j <= Len(cmp.slots)
         /\ cmp.slots[i].pc = "adapter"
         /\ cmp.slots[j].pc = "ready")
        => ENABLED SlotRun(j)

\* Two valid configurations, the first slot's adapter call under way, the
\* second slot not yet run.
C17_Witness ==
    /\ cmp.pc = "gather"
    /\ Items = <<CfgA, CfgA>>
    /\ cmp.slots[1].pc = "adapter"
    /\ cmp.slots[2].pc = "ready"

\* C18: the runner returns from its gather only when every slot has finished,
\* a slot that has returned keeps its outcome, and a result list has one
\* outcome, success or error, for every configuration.
C18_Step ==
    /\ (cmp.pc = "gather" /\ cmp'.pc = "done") =>
          /\ \A i \in 1..Len(cmp.slots) : Finished(cmp.slots[i])
          /\ cmp'.slots = cmp.slots
          /\ ~cmp'.resp.isError =>
                /\ Len(cmp'.resp.results) = Len(cmp.arguments.comparisons.items)
                /\ \A i \in 1..Len(cmp.slots) :
                      /\ cmp.slots[i].pc = "returned"
                      /\ IsResponse(cmp'.resp.results[i])
    /\ \A i \in 1..Len(cmp.slots) :
          (cmp.pc = "gather" /\ Finished(cmp.slots[i])) => cmp'.slots[i] = cmp.slots[i]
C18_JoinsOnAllSlots == [][C18_Step]_vars

\* The runner returned four outcomes, errors and responses among them.
C18_Witness ==
    /\ Compared
    /\ Len(Items) = 4
    /\ ~cmp.resp.isError
    /\ \E i, j \in 1..4 : cmp.resp.results[i].isError /\ ~cmp.resp.results[j].isError

\* C19: a get that returns for the id of a successfully started conversation,
\* before any continue succeeded on it and before it was closed, succeeds; its
\* history has exactly two entries, the user message with the start's
\* user_prompt and the assistant message with the text start returned; its
\* provider, model and system_prompt are the start's, and its hyperparameters
\* are the start's temperature, max_tokens and top_p (null where not given)
\* and every other argument start passed through.
C19_GetAfterStart ==
    \A t \in Threads :
        (/\ Returned(t) /\ Mode(t) = "get"
         /\ th[t].conversation_id \in Ids
         /\ Len(turns[th[t].conversation_id]) = 1
         /\ th[t].conversation_id \notin closed)
        => LET start == turns[th[t].conversation_id][1]
               args  == start.arguments
               resp  == th[t].resp
           IN /\ ~resp.isError
              /\ resp.conversation_id = th[t].conversation_id
              /\ resp.history = <<[role |-> "user", content |-> GetOr(args, "user_prompt", "")],
                                  [role |-> "assistant", content |-> start.result.text]>>
              /\ resp.provider = args.provider
              /\ resp.model = args.model
              /\ resp.system_prompt = args.system_prompt
              /\ DOMAIN resp.hyperparameters
                    = {"temperature", "max_tokens", "top_p"} \cup (DOMAIN args \ ReservedKeys)
              /\ \A k \in {"temperature", "max_tokens", "top_p"} :
                    resp.hyperparameters[k] = Get(args, k)
              /\ \A k \in DOMAIN args \ ReservedKeys : resp.hyperparameters[k] = args[k]

\* get returned for a conversation started with a temperature and with an
\* argument the tool does not name.
C19_Witness ==
    \E t \in Threads :
        /\ Succeeded(t) /\ Mode(t) = "get"
        /\ Len(turns[th[t].conversation_id]) = 1
        /\ turns[th[t].conversation_id][1].arguments = StartB
        /\ th[t].resp.hyperparameters.seed = "42"
        /\ th[t].resp.hyperparameters.temperature = "0.2"
        /\ Len(th[t].resp.history) = 2

IsPrefix(a, b) == Len(a) <= Len(b) /\ SubSeq(b, 1, Len(a)) = a

\* C20: the step in which a continue call returns success appends exactly two
\* entries to the committed history of its conversation, the user message with
\* the call's user_prompt and the assistant message with the returned text,
\* after everything that was there, the history the call read included, and
\* leaves every other history alone; and in every step the history of a
\* conversation that stays stored keeps its messages, unchanged and in place.
C20_Step ==
    /\ \A t \in Threads :
          (th[t].pc = "adapter" /\ Mode(t) = "continue"
           /\ th'[t].pc = "done" /\ ~th'[t].resp.isError)
          => LET cid == th[t].conversation_id IN
             /\ db'.conversation_history[cid]
                  = db.conversation_history[cid]
                      \o <<[role |-> "user", content |-> GetOr(th[t].arguments, "user_prompt", "")],
                           [role |-> "assistant", content |-> th'[t].resp.response]>>
             /\ IsPrefix(Front(th[t].conversation_history), db.conversation_history[cid])
             /\ \A c \in Ids \ {cid} : db'.conversation_history[c] = db.conversation_history[c]
    /\ \A c \in DOMAIN db.conversations \cap DOMAIN db'.conversations :
          IsPrefix(db.conversation_history[c], db'.conversation_history[c])
C20_HistoryIsAppendOnly == [][C20_Step]_vars

\* A continue call returned success on a conversation of two messages: the
\* history has four, the third the call's user message.
C20_Witness ==
    \E t \in Threads :
        /\ Succeeded(t) /\ Mode(t) = "continue"
        /\ Len(db.conversation_history[th[t].conversation_id]) = 4
        /\ db.conversation_history[th[t].conversation_id][3] = [role |-> "user", content |-> "u3"]
        /\ db.conversation_history[th[t].conversation_id][4].content = th[t].resp.response

\* C21: in the step in which a continue call invokes the adapter, the call is
\* generate_with_history with the provider, the model and the system prompt of
\* the stored row, those of the start call, whatever system_prompt the continue
\* call passed; the message history ends with the call's user message, and
\* before it stands the history the call read.  What a continue call reads is
\* the full stored history at that time, the messages of all committed turns of
\* the conversation in the order they were stored; it is still a beginning of
\* the stored history when the adapter is invoked (all of it, unless another
\* continue call on the same conversation was committed in between).
C21_Step ==
    /\ \A t \in Threads :
        (th[t].pc = "idle" /\ th'[t].pc = "insert" /\ th'[t].arguments.mode = "continue")
        => /\ th'[t].conversation_history = db.conversation_history[th'[t].conversation_id]
           /\ th'[t].conversation_history = TurnMessages(turns[th'[t].conversation_id])
    /\ \A t \in Threads :
        (th[t].pc = "insert" /\ Mode(t) = "continue" /\ th'[t].pc = "adapter")
        => LET cid    == th[t].conversation_id
               call   == th'[t].call
               stored == db.conversation_history[cid]
               passed == call.message_history
           IN /\ cid \in DOMAIN db.conversations
              /\ call.method = "generate_with_history"
              /\ call.provider = db.conversations[cid].provider
              /\ call.model = db.conversations[cid].model
              /\ call.model = turns[cid][1].arguments.model
              /\ call.system_prompt = db.conversations[cid].system_prompt
              /\ call.system_prompt = turns[cid][1].arguments.system_prompt
              /\ passed # <<>>
              /\ passed[Len(passed)] = [role |-> "user",
                                        content |-> GetOr(th[t].arguments, "user_prompt", "")]
              /\ Front(passed) = th[t].conversation_history
              /\ \E k \in 1..Len(turns[cid]) :
                    Front(passed) = TurnMessages(SubSeq(turns[cid], 1, k))
              /\ IsPrefix(Front(passed), stored)
NamedParams == {"temperature", "max_tokens", "top_p"}

\* C22: in the step in which a continue call invokes the adapter, the keyword
\* arguments it passes are the stored temperature, max_tokens and top_p that
\* are not null, with their stored values, and nothing else: no argument that
\* start passed through and stored is passed again.  A get that returns after
\* a continuation succeeded still returns all stored hyperparameters, the
\* passed-through ones included, as start stored them.
C22_Step ==
    /\ \A t \in Threads :
        (th[t].pc = "insert" /\ Mode(t) = "continue" /\ th'[t].pc = "adapter")
        => LET stored == json_loads(db.conversations[th[t].conversation_id].hyperparameters)
               params == th'[t].call.params
           IN /\ DOMAIN params = {k \in NamedParams : stored[k] # Null}
              /\ \A k \in DOMAIN params : params[k] = stored[k]
              /\ \A k \in DOMAIN stored \ NamedParams : k \notin DOMAIN params
    /\ \A t \in Threads :
        (/\ Succeeded(t) /\ Mode(t) = "get"
         /\ th[t].conversation_id \in Ids
         /\ turns[th[t].conversation_id] # <<>>)
        => LET args == turns[th[t].conversation_id][1].arguments IN
           /\ DOMAIN th[t].resp.hyperparameters = NamedParams \cup (DOMAIN args \ ReservedKeys)
           /\ \A k \in NamedParams : th[t].resp.hyperparameters[k] = Get(args, k)
           /\ \A k \in DOMAIN args \ ReservedKeys : th[t].resp.hyperparameters[k] = args[k]
C22_ExtrasAreNotReplayed == [][C22_Step]_vars

\* A continue call on a conversation started with a temperature and a seed has
\* invoked the adapter with the temperature alone.
C22_Witness ==
    \E t \in Threads :
        /\ th[t].pc = "adapter" /\ Mode(t) = "continue"
        /\ turns[th[t].conversation_id][1].arguments = StartB
        /\ json_loads(th[t].row.hyperparameters).seed = "42"
        /\ json_loads(th[t].row.hyperparameters).max_tokens = Null
        /\ DOMAIN th[t].call.params = {"temperature"}

\* C23: a list call reads the ids of all stored conversations; it returns one
\* summary for each id it read and their number as conversation_count; for every
\* id that is still stored when the summaries are made, message_count is the
\* length of its stored history, first_user_message the user message of its
\* first turn and latest_assistant_message the reply of its latest turn.
C23_Step ==
    /\ \A t \in Threads :
        (th[t].pc = "idle" /\ th'[t].pc = "summaries")
        => DOMAIN th'[t].rows = DOMAIN db.conversations
    /\ \A t \in Threads :
        (th[t].pc = "summaries" /\ th'[t].pc = "done")
        => LET resp == th'[t].resp IN
           /\ ~resp.isError
           /\ DOMAIN resp.conversations = DOMAIN th[t].rows
           /\ resp.conversation_count = Cardinality(DOMAIN resp.conversations)
           /\ DOMAIN th[t].rows = DOMAIN db.conversations
                 => resp.conversation_count = Cardinality(DOMAIN db.conversations)
           /\ \A c \in DOMAIN resp.conversations \cap DOMAIN db.conversations :
                 LET h == db.conversation_history[c]
                     summary == resp.conversations[c]
                 IN /\ summary.message_count = Len(h)
                    /\ summary.message_count = 2 * Len(turns[c])
                    /\ h[1].role = "user"
                    /\ summary.first_user_message = h[1].content
                    /\ summary.first_user_message = GetOr(turns[c][1].arguments, "user_prompt", "")
                    /\ h[Len(h)].role = "assistant"
                    /\ summary.latest_assistant_message = h[Len(h)].content
                    /\ summary.latest_assistant_message = turns[c][Len(turns[c])].result.text
C23_ListSummarisesTheStore == [][C23_Step]_vars

\* list returned two summaries, one of a conversation of four messages whose
\* latest reply and latest user message differ from the first ones.
C23_Witness ==
    \E t \in Threads :
        /\ Succeeded(t) /\ Mode(t) = "list"
        /\ th[t].resp.conversation_count = 2
        /\ \E c \in DOMAIN th[t].resp.conversations :
              /\ th[t].resp.conversations[c].message_count = 4
              /\ db.conversation_history[c][2].content
                    # th[t].resp.conversations[c].latest_assistant_message
              /\ db.conversation_history[c][3].content
                    # th[t].resp.conversations[c].first_user_message

\* C24 as stated: the system_prompt of every summary list returns has at most
\* 100 characters.
C24_SummaryPromptAtMost100 ==
    \A t \in Threads :
        (Succeeded(t) /\ Mode(t) = "list")
        => \A c \in DOMAIN th[t].resp.conversations :
              StrLen(th[t].resp.conversations[c].system_prompt) <= 100

\* list returned the summary of a conversation whose system prompt has 101
\* characters: the field has 103, the first 100 and three dots.
C24_Witness ==
    \E t \in Threads :
        /\ Succeeded(t) /\ Mode(t) = "list"
        /\ \E c \in DOMAIN th[t].resp.conversations \cap DOMAIN db.conversations :
              /\ StrLen(db.conversations[c].system_prompt) = 101
              /\ StrLen(th[t].resp.conversations[c].system_prompt) = 103

\* The token counts of a usage block: OpenAI's names, or Anthropic's.
InputTokens(usage) ==
    IF "prompt_tokens" \in DOMAIN usage THEN usage.prompt_tokens ELSE usage.input_tokens
OutputTokens(usage) ==
    IF "completion_tokens" \in DOMAIN usage THEN usage.completion_tokens ELSE usage.output_tokens

\* The catalog entries of a provider that carry this name.
Named(provider, model) == {m \in get_default_models(provider) : m.name = model}

\* C25: in every result of a comparison slot that has a cost block, with costs
\* in billionths of a dollar and rates in thousandths of a dollar per million
\* tokens, input_cost is input tokens / 1,000,000 x input rate, output_cost is
\* output tokens / 1,000,000 x output rate, total_cost is their sum and the
\* rates are those of the catalog entry of the model; for 1,000,000 input and
\* 1,000,000 output tokens at 0.15 and 0.60 the total is 0.75 dollars.
C25_CostBreakdown ==
    \A i \in 1..Len(cmp.slots) :
        (cmp.slots[i].pc = "returned" /\ "costs" \in DOMAIN cmp.slots[i].result
         /\ cmp.slots[i].result.costs # EmptyDict)
        => LET result == cmp.slots[i].result
               costs  == result.costs
               tin    == InputTokens(result.usage)
               tout   == OutputTokens(result.usage)
               config == Items[i]
           IN /\ \E m \in Named(config.provider, config.model) :
                    /\ costs.rates.input_rate = m.input_cost
                    /\ costs.rates.output_rate = m.output_cost
              /\ costs.input_cost = tin * costs.rates.input_rate
              /\ costs.output_cost = tout * costs.rates.output_rate
              /\ costs.total_cost = costs.input_cost + costs.output_cost
              /\ (tin = 1000000 /\ tout = 1000000
                  /\ costs.rates.input_rate = 150 /\ costs.rates.output_rate = 600)
                 => costs.total_cost = 750000000

\* A slot returned for 1,000,000 input and 1,000,000 output tokens at the
\* rates 0.15 and 0.60.
C25_Witness ==
    \E i \in 1..Len(cmp.slots) :
        /\ cmp.slots[i].pc = "returned"
        /\ ~cmp.slots[i].result.isError
        /\ cmp.slots[i].result.usage.prompt_tokens = 1000000
        /\ cmp.slots[i].result.usage.completion_tokens = 1000000
        /\ cmp.slots[i].result.costs.rates = [input_rate |-> 150, output_rate |-> 600]
        /\ cmp.slots[i].result.costs.total_cost = 750000000

\* C26: the adapter result of every successful turn has a cost block exactly
\* when an entry of the provider's catalog carries the requested model name as
\* its name; otherwise (a type key such as "fast" is such a name) the result
\* has no costs, the response of that turn carries an empty costs object, the
\* manager stores an empty costs object and get returns it.
C26_CostsOnlyForCatalogNames ==
    /\ \A c \in Ids : \A i \in 1..Len(turns[c]) :
          LET origin == turns[c][1].arguments
              result == turns[c][i].result
          IN /\ ("costs" \in DOMAIN result) <=> (Named(origin.provider, origin.model) # {})
             /\ "costs" \in DOMAIN result => result.costs # EmptyDict
    /\ \A c \in DOMAIN db.conversations :
          (Named(db.conversations[c].provider, db.conversations[c].model) = {})
              <=> (json_loads(db.conversations[c].costs) = EmptyDict)
    /\ \A t \in Threads :
          (/\ Succeeded(t) /\ Mode(t) \in {"start", "continue", "get"}
           /\ th[t].conversation_id \in Ids
           /\ turns[th[t].conversation_id] # <<>>)
          => LET origin == turns[th[t].conversation_id][1].arguments IN
             (Named(origin.provider, origin.model) = {}) <=> (th[t].resp.costs = EmptyDict)

\* get returned an empty costs object for a conversation whose model is the
\* type key "fast", while a conversation on a catalog name has costs stored.
C26_Witness ==
    \E t \in Threads :
        /\ Succeeded(t) /\ Mode(t) = "get"
        /\ th[t].resp.model = "fast"
        /\ \E m \in get_default_models(th[t].resp.provider) : m.type = "fast"
        /\ th[t].resp.costs = EmptyDict
        /\ \E c \in DOMAIN db.conversations : json_loads(db.conversations[c].costs) # EmptyDict

Count(log, e) == Cardinality({i \in 1..Len(log) : log[i] = e})

\* C27: no call has invoked the adapter more than once; the only step of a
\* start or continue call after its adapter invocation is its return, and when
\* the adapter failed that return is the error response of this very call; a
\* comparison slot goes from its adapter invocation to its outcome and no
\* further, and the outcome of a failed invocation is the slot's error entry.
C27_Step ==
    /\ \A t \in Threads :
          /\ Count(th'[t].log, "adapter") <= 1
          /\ (th[t].pc = "adapter" /\ th'[t] # th[t])
             => \/ /\ th'[t].pc = "done"
                   /\ th'[t].arguments = th[t].arguments
                   /\ Count(th'[t].log, "adapter") = 1
                   /\ th'[t].resp.isError
                      => th'[t].resp.error \in {"provider_error", "unexpected_generation",
                                                "unexpected_continuation"}
                \/ \A u \in Threads : th'[u] = Idle
    /\ \A i \in 1..Len(cmp.slots) :
          /\ (cmp.slots[i].pc = "adapter" /\ cmp'.slots # cmp.slots)
             => /\ Len(cmp'.slots) = Len(cmp.slots)
                /\ cmp'.slots[i].pc \in {"adapter", "returned"}
                /\ cmp'.slots[i].pc = "returned" => IsResponse(cmp'.slots[i].result)
          /\ (Finished(cmp.slots[i]) /\ cmp'.pc # "idle") => cmp'.slots[i] = cmp.slots[i]
C27_NothingIsRetried == [][C27_Step]_vars

\* A continue call returned the adapter's failure, and a comparison slot holds
\* the adapter's failure as its outcome.
C27_Witness ==
    /\ \E t \in Threads :
          /\ Failed(t) /\ Mode(t) = "continue"
          /\ th[t].resp.error = "provider_error"
          /\ Count(th[t].log, "adapter") = 1
    /\ \E i \in 1..Len(cmp.slots) :
          cmp.slots[i].pc = "returned" /\ cmp.slots[i].result = Error("provider_error")

Busy(t) == th[t].pc \notin {"idle", "done"}

\* C28, for callers on threads of their own: with every adapter call of the
\* comparison runner and of every thread but the last returning or failing
\* sooner or later, every operation of these threads and every comparison run
\* that has begun returns a response, also while an adapter call of the last
\* thread never returns; an operation of the last thread returns or arrives at
\* its adapter call, and from there its only step is the adapter's return:
\* without it the operation never returns.
C28_Stalls ==
    \A t \in Threads :
        (th[t].pc = "adapter" /\ th'[t] # th[t]) => th'[t].pc = "done"
C28_EveryOperationReturns ==
    /\ \A t \in Threads \ {Hanging} : Busy(t) ~> (th[t].pc = "done")
    /\ Busy(Hanging) ~> (th[Hanging].pc \in {"done", "adapter"})
    /\ (cmp.pc = "gather") ~> (cmp.pc = "done")
    /\ [][C28_Stalls]_vars

\* The last thread is in a continue call's adapter invocation, holding the
\* write lock, while a get call of another thread has returned its response.
C28_ThreadsWitness ==
    /\ th[Hanging].pc = "adapter"
    /\ writer = Hanging
    /\ \E t \in Threads \ {Hanging} : Succeeded(t) /\ Mode(t) = "get"

\* C28 as stated, for callers that are tasks of one event loop: an adapter call
\* that has not returned stalls the operation that issued it alone; while it
\* lasts, the call of another task can begin.
C28_OthersAreNotStalled ==
    \A t, u \in Threads :
        (/\ t # u
         /\ th[t].pc = "adapter"
         /\ \A v \in Threads \ {t} : th[v].pc = "idle")
        => ENABLED LoopStep(u)

\* A task is in the adapter call of its continue call, the other tasks have no
\* operation under way.
C28_Witness ==
    \E t \in Threads :
        /\ th[t].pc = "adapter" /\ Mode(t) = "continue"
        /\ \A v \in Threads \ {t} : th[v].pc = "idle"

\* The conversations of the committed turns and closes: those with a committed
\* start that no committed close has deleted.
Committed == {c \in Ids : turns[c] # <<>>}

\* C29: the store is durable.  At every point the file holds exactly the
\* committed turns and closes: a row for every conversation of a committed
\* start that is not closed, with the messages of its committed turns in order,
\* and nothing under any other id.  A stop of the process leaves the file, the
\* committed turns and the closes as they are, whatever the connections had
\* written without committing, and leaves no transaction and no write lock.
\* A get or continue that begins, on its fresh connection, for a conversation
\* of a committed start that is not closed finds it, and a list that begins
\* reads exactly these conversations.
C29_Stored ==
    /\ DOMAIN db.conversations = Committed
    /\ \A c \in Ids : db.conversation_history[c] = TurnMessages(turns[c])
    /\ \A c \in closed : c \notin DOMAIN db.conversations
C29_Step ==
    /\ ((\A t \in Threads : th[t].pc # "done") /\ (\A t \in Threads : th'[t] = Idle))
          => /\ db' = db /\ turns' = turns /\ closed' = closed
             /\ writer' = NoThread
             /\ \A t \in Threads : View(t)' = db
    /\ \A t \in Threads :
          (th[t].pc = "idle" /\ th'[t].pc # "idle") =>
             LET args == th'[t].arguments IN
             /\ (/\ Get(args, "mode") \in {"get", "continue"}
                 /\ Get(args, "conversation_id") \in Committed)
                   => /\ th'[t].pc = IF args.mode = "get" THEN "history" ELSE "insert"
                      /\ th'[t].conversation_id = args.conversation_id
             /\ Get(args, "mode") = "list" =>
                   /\ th'[t].pc = "summaries"
                   /\ DOMAIN th'[t].rows = Committed
C29_StoreIsDurable == []C29_Stored /\ [][C29_Step]_vars

\* The process has stopped and started since a start with the Anthropic
\* credential and a continuation of it were committed (the environment now has
\* no such credential), another conversation was closed, and a get of the
\* conversation has returned its two turns.
C29_Witness ==
    \E t \in Threads : \E c \in Committed :
        /\ apiKeys = {"openai"}
        /\ db.conversations[c].provider = "anthropic"
        /\ Len(turns[c]) = 2
        /\ closed # {}
        /\ Succeeded(t) /\ Mode(t) = "get" /\ th[t].conversation_id = c
        /\ th[t].resp.history = TurnMessages(turns[c])

\* A configuration with its required fields, a supported provider whose
\* credential is set, and a model name that is not in that provider's catalog.
UnknownModel(config) ==
    /\ Null \notin {Get(config, "provider"), Get(config, "model"), Get(config, "system_prompt")}
    /\ config.provider \in PROVIDERS
    /\ Truthy(get_api_key(config.provider, apiKeys))
    /\ Named(config.provider, config.model) = {}

\* C30: in a comparison, the slot of a configuration whose model name is not
\* in the catalog of its supported provider, with the credential set, goes from
\* its checks to the adapter call and to nothing else; when the call is over
\* the slot holds what the adapter gave for that model name: the provider
\* error when it raised, and otherwise a result with the adapter's text and
\* usage, the requested model name and no costs.
C30_Step ==
    \A i \in 1..MaxComparisons :
        (/\ cmp.pc = "gather" /\ cmp'.pc = "gather"
         /\ i \in 1..Len(cmp.slots)
         /\ UnknownModel(cmp.arguments.comparisons.items[i])
         /\ cmp'.slots[i] # cmp.slots[i])
        => LET config == cmp.arguments.comparisons.items[i]
               slot   == cmp'.slots[i] IN
           /\ cmp.slots[i].pc = "ready" => slot.pc = "adapter"
           /\ cmp.slots[i].pc = "adapter" =>
                 /\ slot.pc = "returned"
                 /\ \E o \in VendorOutcomes :
                       LET r == Adapter("generate", config.provider, config.model, o) IN
                       IF r.raised THEN slot.result = Error("provider_error")
                       ELSE /\ ~slot.result.isError
                            /\ slot.result.response = r.result.text
                            /\ slot.result.model = config.model
                            /\ slot.result.provider = config.provider
                            /\ slot.result.usage = r.result.usage
                            /\ slot.result.costs = EmptyDict
           /\ cmp.slots[i].pc \in {"ready", "adapter"}
C30_UnknownModelIsNotBlocking == [][C30_Step]_vars

\* The slot of the configuration with the model "custom-model" holds a
\* successful result under that name, after a slot that held an error.
C30_Witness ==
    /\ cmp.pc = "gather"
    /\ \E i \in 2..Len(cmp.slots) :
          /\ cmp.arguments.comparisons.items[i] = CfgB
          /\ UnknownModel(CfgB)
          /\ cmp.slots[i].pc = "returned"
          /\ ~cmp.slots[i].result.isError
          /\ cmp.slots[i].result.model = "custom-model"
          /\ cmp.slots[i - 1].pc = "returned" /\ cmp.slots[i - 1].result.isError

\* The comparisons argument of the comparison run under way.
Comparisons == GetOr(cmp.arguments, "comparisons", NotAList)
\* A comparisons argument the runner takes: a list of 1 to 4 configurations.
Accepted(comparisons) ==
    comparisons.list /\ 1 <= Len(comparisons.items) /\ Len(comparisons.items) <= 4

\* C31: a comparison run whose comparisons argument is missing, no list, empty
\* or longer than 4 has, from its first step to its response, no slot (no
\* run_comparison was started, so no adapter was invoked) and one isError
\* response; a run on a list of 1 to 4 configurations has one slot for each.
C31_OnlyOneToFour ==
    cmp.pc # "idle" =>
        IF Accepted(Comparisons)
        THEN /\ cmp.pc \in {"gather", "done"}
             /\ Len(cmp.slots) = Len(Comparisons.items)
        ELSE /\ cmp.pc = "done"
             /\ cmp.slots = <<>>
             /\ cmp.resp.isError
             /\ DOMAIN cmp.resp = {"isError", "error"}

\* A comparison run on a list of five configurations has returned its error.
C31_Witness ==
    /\ cmp.pc = "done"
    /\ Comparisons.list /\ Len(Comparisons.items) = 5
    /\ cmp.resp.isError /\ cmp.slots = <<>>

\* C32: in the committed store every conversation record has a history of
\* even length, at least 2, and every stored message is under the id of a
\* record that exists.
C32_CompleteExchangesNoOrphans ==
    /\ \A c \in DOMAIN db.conversations :
          /\ Len(db.conversation_history[c]) >= 2
          /\ Len(db.conversation_history[c]) % 2 = 0
    /\ \A c \in Ids \ DOMAIN db.conversations : db.conversation_history[c] = <<>>

\* A conversation is stored with one exchange, another has been closed, and a
\* continue call of the first is in its adapter call with its user message
\* written and not committed: its connection sees three messages, the file two.
C32_Witness ==
    \E t \in Threads : \E c \in DOMAIN db.conversations :
        /\ Len(db.conversation_history[c]) = 2
        /\ closed # {}
        /\ th[t].pc = "adapter" /\ Mode(t) = "continue" /\ th[t].conversation_id = c
        /\ th[t].txn.open
        /\ Len(View(t).conversation_history[c]) = 3

\* Thread t is in the adapter call of a continue call on conversation c.
Suspended(t, c) ==
    th[t].pc = "adapter" /\ Mode(t) = "continue" /\ th[t].conversation_id = c

C33_Serialised ==
    /\ \A t, u \in Threads : \A c \in Ids : (Suspended(t, c) /\ Suspended(u, c)) => t = u
    /\ \A t \in Threads : th[t].txn.open => writer = t
    /\ \A c \in DOMAIN db.conversations :
          /\ db.conversation_history[c] = TurnMessages(turns[c])
          /\ Alternates(db.conversation_history[c])
C33_Step ==
    \A t, u \in Threads : \A c \in Ids :
        (/\ t # u /\ Suspended(t, c)
         /\ th[u].pc = "insert" /\ th[u].conversation_id = c
         /\ th'[u] # th[u])
        => /\ th'[u].pc = "done"
           /\ th'[u].resp = Error("unexpected")
           /\ ~InLog(th'[u].log, "adapter")
           /\ db' = db /\ th'[t] = th[t] /\ writer' = writer
C33_StaleHistory ==
    \E u \in Threads : \E c \in DOMAIN db.conversations :
        /\ Suspended(u, c)
        /\ Len(th[u].call.message_history) = 3
        /\ Len(db.conversation_history[c]) = 4

\* The messages of conversation c as the connection of thread t has them, the
\* last being the user message its continue call has written and not committed.
Pending(t, c) == th[t].txn.view.conversation_history[c]

\* C34: while a continue call is suspended in its adapter call, its user
\* message is on its own connection only: the file has the history without
\* it.  No step of another operation changes the file in that time (a start or
\* close that comes to its write finds the write lock taken and fails), so no
\* commit of another operation makes the pending message durable; when the
\* continue call fails, the file is left as it was, without the message, and
\* when it succeeds, its own commit adds the message and the reply.
C34_Step ==
    \A u \in Threads : \A c \in Ids :
        Suspended(u, c) =>
            /\ th[u].txn.open
            /\ Pending(u, c)[Len(Pending(u, c))] =
                   [role |-> "user", content |-> UserPrompt(th[u].arguments)]
            /\ db.conversation_history[c] = Front(Pending(u, c))
            /\ th'[u] = th[u] => db' = db
            /\ (th'[u].pc = "done" /\ th'[u].resp.isError)
                  => db' = db /\ db'.conversation_history[c] = Front(Pending(u, c))
            /\ (th'[u].pc = "done" /\ ~th'[u].resp.isError)
                  => /\ Front(db'.conversation_history[c]) = Pending(u, c)
                     /\ \A d \in Ids \ {c} :
                           db'.conversation_history[d] = db.conversation_history[d]
C34_CommitsOnlyOwnWrites == [][C34_Step]_vars

\* A continue call is suspended in its adapter call with its user message
\* pending, and the close of the same conversation by another thread has
\* failed: the conversation and its history are in the file as before.
C34_Witness ==
    \E t, u \in Threads : \E c \in DOMAIN db.conversations :
        /\ t # u /\ Suspended(u, c)
        /\ Failed(t) /\ Mode(t) = "close" /\ th[t].conversation_id = c
        /\ Len(Pending(u, c)) = Len(db.conversation_history[c]) + 1

\* The step in which the continue call of thread u on conversation c returns
\* with the reply v stored after its user message and isError false.
ReturnsWith(u, c, v) ==
    /\ ContinueReturn(u)
    /\ ~th'[u].resp.isError
    /\ th'[u].resp.response = v.text
    /\ db'.conversation_history[c] =
          Append(Pending(u, c), [role |-> "assistant", content |-> v.text])

\* C35 as stated: a continue call whose adapter call returns (it did not
\* raise) commits its messages and returns isError false, whatever other
\* operations did in the meantime.
C35_ReturnStep ==
    \A u \in Threads : \A c \in Ids :
        (/\ Suspended(u, c)
         /\ th'[u].pc = "done"
         /\ th'[u].resp # Error("provider_error"))
        => /\ ~th'[u].resp.isError
           /\ Front(db'.conversation_history[c]) = Pending(u, c)
C35_CanSucceed ==
    \A u \in Threads : \A c \in Ids :
        (Suspended(u, c) /\ Quiet) =>
            /\ c \in DOMAIN db.conversations
            /\ \A v \in {w \in VendorReplies : w.text # Null} : ENABLED ReturnsWith(u, c, v)
C35_Step ==
    \A u \in Threads : \A c \in Ids :
        (Suspended(u, c) /\ th'[u].pc = "done") =>
            IF th'[u].resp.isError
            THEN /\ th'[u].resp \in {Error("provider_error"), Error("unexpected_continuation")}
                 /\ db' = db
            ELSE /\ th'[u].resp.response # Null
                 /\ db'.conversation_history[c] =
                       Append(Pending(u, c), [role |-> "assistant", content |-> th'[u].resp.response])
Stored(d, c) ==
    [record |-> IF c \in DOMAIN d.conversations THEN {d.conversations[c]} ELSE {},
     history |-> d.conversation_history[c]]

\* C36: a step that changes, in the committed store, anything of a
\* conversation is the return of a start, continue or close call of that very
\* conversation (the one the start creates, the one the others are addressed
\* to); it changes nothing of any other conversation.  So the calls that fail,
\* and get and list, change nothing at all.
C36_Step ==
    \A c \in Ids :
        Stored(db', c) # Stored(db, c) =>
            /\ \E t \in Threads :
                  /\ th[t].pc # "done" /\ th'[t].pc = "done"
                  /\ th'[t].arguments.mode \in {"start", "continue", "close"}
                  /\ th'[t].conversation_id = c
                  /\ ~th'[t].resp.isError
            /\ \A d \in Ids \ {c} : Stored(db', d) = Stored(db, d)
C36_OperationsAreLocal == [][C36_Step]_vars

\* Two conversations are stored; a continue call of one has returned with
\* success and that one has two exchanges, the other still has its first, with
\* the metrics of another reply.
C36_Witness ==
    \E t \in Threads : \E c, d \in DOMAIN db.conversations :
        /\ c # d
        /\ Succeeded(t) /\ Mode(t) = "continue" /\ th[t].conversation_id = c
        /\ Len(db.conversation_history[c]) = 4
        /\ Len(db.conversation_history[d]) = 2
        /\ db.conversations[c].response_time # db.conversations[d].response_time

\* A configuration that fails validation: no key-value map, or one without a
\* required field.
Invalid(config) ==
    \/ config = NotADict
    \/ Null \in {Get(config, "provider"), Get(config, "model"), Get(config, "system_prompt")}

\* C37 as stated: when the runner has returned for a list of 1 to 4
\* configurations, the response is the list of results, every configuration
\* that is malformed or lacks a required field has an isError entry in its own
\* slot, and every other slot holds an outcome of its own configuration.
C37_ValidationIsIsolated ==
    (cmp.pc = "done" /\ cmp.slots # <<>>) =>
        /\ ~cmp.resp.isError
        /\ Len(cmp.resp.results) = Len(Items)
        /\ \A i \in 1..Len(Items) :
              IF Invalid(Items[i]) THEN cmp.resp.results[i].isError
              ELSE cmp.resp.results[i] \in Alone(Items[i], apiKeys)

\* The runner has returned for two configurations, the second of them no
\* key-value map: the first slot holds the successful result of its adapter
\* call, and the response is the single error, without any result.
C37_Witness ==
    /\ cmp.pc = "done"
    /\ Len(cmp.slots) = 2
    /\ Items[2] = NotADict
    /\ cmp.slots[1].pc = "returned" /\ ~cmp.slots[1].result.isError
    /\ cmp.slots[2].pc = "raised"
    /\ cmp.resp = Error("unexpected")

\* The continue call of thread t has read its conversation, whose provider has
\* no credential in the environment.
WithoutCredential(t) ==
    /\ th[t].pc = "insert"
    /\ th[t].row.provider \notin apiKeys

\* C38: a continue call on a stored conversation whose provider has no
\* credential any more goes from its reads to its response in one step: the
\* response is an error, generate_with_history is not invoked, and the store,
\* with the conversation's history, usage, costs and response time, is as
\* before; no continue call is ever in an adapter call of a provider without
\* credential.
C38_Step ==
    \A t \in Threads :
        (WithoutCredential(t) /\ th'[t] # th[t] /\ th'[t].pc # "idle") =>
            /\ th'[t].pc = "done"
            /\ th'[t].resp.isError
            /\ ~InLog(th'[t].log, "adapter")
            /\ th'[t].call = EmptyDict
            /\ db' = db /\ turns' = turns
            /\ Stored(db', th[t].conversation_id) = Stored(db, th[t].conversation_id)
C38_NoAdapterWithoutCredential ==
    \A t \in Threads : \A c \in Ids :
        Suspended(t, c) => th[t].row.provider \in apiKeys
C38_ContinueWithoutCredential == []C38_NoAdapterWithoutCredential /\ [][C38_Step]_vars

\* A conversation was started with the Anthropic credential; the process has
\* started again without it, and a continue call of the conversation has
\* returned the provider error after its INSERT, without an adapter call: the
\* stored history is the one the call read.
C38_Witness ==
    \E t \in Threads : \E c \in DOMAIN db.conversations :
        /\ apiKeys = {"openai"}
        /\ db.conversations[c].provider = "anthropic"
        /\ Failed(t) /\ Mode(t) = "continue" /\ th[t].conversation_id = c
        /\ th[t].resp = Error("provider_error")
        /\ InLog(th[t].log, "insert") /\ ~InLog(th[t].log, "adapter")
        /\ db.conversation_history[c] = th[t].conversation_history
        /\ Len(db.conversation_history[c]) = 2
====
